---- MODULE Spec2Model ----
(***************************************************************************)
(* The alert evaluation engine of aurora-alerter: checkAllAlerts and the  *)
(* functions it calls (services/alert.js, services/aurora.js), over the   *)
(* SQLite tables of db/database.js.                                        *)
(*                                                                         *)
(* Time is counted in hours.  Timestamps are written with toISOString()    *)
(* and read back with new Date(), which is lossless at the millisecond, so *)
(* a stored timestamp is the clock value at the time of the write.         *)
(***************************************************************************)
EXTENDS Integers, Sequences, FiniteSets, TLC

VARIABLES
    now,                        \* Date.now(), in hours
    hasIncrementColumn,         \* the alerts table has an increment_threshold column
    alerts,                     \* table alerts: a set of rows
    alert_notification_state,   \* table alert_notification_state: a set of rows
    aurora_history,             \* table aurora_history: rows in insertion (rowid) order
    outbox,                     \* the calls of sendAuroraAlert, in order, and whether each resolved
    pc,                         \* position of the checkAllAlerts run
    auroraData,                 \* what fetchAuroraData gave the current run
    listed,                     \* the rows of the listing query of the current run
    idx,                        \* index in listed of the next alert of the for loop
    notificationsSent,          \* the run's counter of sent notifications
    lastLog,                    \* the last summary line checkAllAlerts printed
    evaluated,                  \* per alert, what the current run's loop iteration did
    other,                      \* a second checkAllAlerts run, started while the first is in flight
    scheduler,                  \* the process: "off", "running" after startScheduler, "crashed"
    lastOp,                     \* the last prune, CRUD request or upsert and what it did
    call,                       \* the last call of a function examined by itself, and its result
    cityCache,                  \* geocoding.js cityCache: cache key -> entry
    geoCalls,                   \* the calls of getCachedCityName, per caller
    lookups,                    \* per cache key, the times at which getCityName was called
    thresholdMax,               \* the upper bound of the CHECK on alerts.threshold
    alerts_new,                 \* table alerts_new of the schema migration, when it exists
    lastInit,                   \* what the last initialisation of the database did
    sqlite_sequence             \* sqlite_sequence.seq of alerts: the largest id AUTOINCREMENT gave

vars == << now, hasIncrementColumn, alerts, alert_notification_state, aurora_history,
           outbox, pc, auroraData, listed, idx, notificationsSent, lastLog, evaluated,
           other, scheduler, lastOp, call, cityCache, geoCalls, lookups,
           thresholdMax, alerts_new, lastInit, sqlite_sequence >>

\* What the alerts engine and the alerts API leave alone
libVars == << call, cityCache, geoCalls, lookups, thresholdMax, alerts_new, lastInit,
             sqlite_sequence >>

\* What the evaluation run of pc .. evaluated leaves alone
appVars == << other, scheduler, lastOp, call, cityCache, geoCalls, lookups,
           thresholdMax, alerts_new, lastInit, sqlite_sequence >>

----------------------------------------------------------------------------
(* Bounds of the model *)

MaxTime == 13       \* the clock stops there
MaxHistory == 2     \* no run starts unless aurora_history has room for a row per alert
MaxSamples == 3     \* longest coordinates array given to findClosestCoordinate by itself
MaxLookups == 3     \* getCityName is called at most that many times
MaxStartups == 2    \* the process is started at most that many times

----------------------------------------------------------------------------
(* Values of the program *)

NULL == -1          \* SQL NULL / JavaScript null
Undefined == -2     \* JavaScript undefined (a sample tuple without a third element)

TwelveHours == 12
TwentyFourHours == 24
Infinity == 17      \* above every value of haversineDistance below

AlertIds == {1, 2}
UserIds == {1, 2}
Thresholds == {15, 30}
Increments == {10}
AuroraValues == {20, 32}
PriorValues == {20}
PriorTimes == {0, 1}

\* Points of the feed, [longitude, latitude], and the alerts' places (latitude, longitude)
SamplePoints == { <<0, 60>>, <<60, 0>> }
AlertLatitude(id) == IF id = 1 THEN 60 ELSE 0
AlertLongitude(id) == IF id = 1 THEN 0 ELSE 120

Samples == { <<p[1], p[2], v>> : p \in SamplePoints, v \in AuroraValues \cup {Undefined} }

\* The sequences of samples in which no point of the grid occurs twice
RECURSIVE Grids(_)
Grids(points) ==
    { <<>> } \cup
    UNION { { <<s>> \o g : s \in { x \in Samples : x[1] = p[1] /\ x[2] = p[2] },
                            g \in Grids(points \ {p}) } : p \in points }

\* What fetchAuroraData can give: it throws, or it returns a document with or
\* without the coordinates field.  NotFetched is the run's state before the fetch.
NotFetched == [kind |-> "none", hasCoordinates |-> FALSE, coordinates |-> <<>>]
FetchError == [kind |-> "error", hasCoordinates |-> FALSE, coordinates |-> <<>>]
NoCoordinatesField == [kind |-> "document", hasCoordinates |-> FALSE, coordinates |-> <<>>]
Documents ==
    { [kind |-> "document", hasCoordinates |-> TRUE, coordinates |-> c] :
        c \in Grids(SamplePoints) }
FetchResults == {FetchError, NoCoordinatesField} \cup Documents

----------------------------------------------------------------------------
(* services/aurora.js *)

\* 4 * sin^2(d/2) for d a multiple of 60 degrees
SinSqHalf4(d) ==
    LET m == (IF d < 0 THEN -d ELSE d) % 360
    IN  CASE m = 0 -> 0
          [] m = 60 -> 1
          [] m = 120 -> 3
          [] m = 180 -> 4
          [] m = 240 -> 3
          [] m = 300 -> 1

\* 2 * cos(lat) for lat in {-60, 0, 60}
Cos2(lat) == IF lat = 0 THEN 2 ELSE 1

\* 16 * a, where a is the haversine of the central angle.  The distance
\* R * 2 * atan2(sqrt(a), sqrt(1 - a)) grows strictly with a on [0, 1], so
\* comparing these values is comparing the distances.
haversineDistance(lat1, lng1, lat2, lng2) ==
    4 * SinSqHalf4(lat2 - lat1) + Cos2(lat1) * Cos2(lat2) * SinSqHalf4(lng2 - lng1)

NoClosest == <<>>

\* Mutant: the comparison is <=, so the last of the nearest samples is kept
RECURSIVE ScanCoordinates_LastWins(_, _, _, _, _, _)
ScanCoordinates_LastWins(coords, i, targetLat, targetLng, closest, minDistance) ==
    IF i > Len(coords) THEN closest
    ELSE LET coord == coords[i]
             distance == haversineDistance(targetLat, targetLng, coord[2], coord[1])
         IN  IF distance <= minDistance
             THEN ScanCoordinates_LastWins(coords, i + 1, targetLat, targetLng, coord, distance)
             ELSE ScanCoordinates_LastWins(coords, i + 1, targetLat, targetLng, closest,
                                           minDistance)

\* The for loop of findClosestCoordinate (lines 44-54), from element i on
RECURSIVE ScanCoordinates(_, _, _, _, _, _)
ScanCoordinates(coords, i, targetLat, targetLng, closest, minDistance) ==
    IF i > Len(coords) THEN closest
    ELSE LET coord == coords[i]
             distance == haversineDistance(targetLat, targetLng, coord[2], coord[1])
         IN  IF distance < minDistance
             THEN ScanCoordinates(coords, i + 1, targetLat, targetLng, coord, distance)
             ELSE ScanCoordinates(coords, i + 1, targetLat, targetLng, closest, minDistance)

findClosestCoordinate(coords, targetLat, targetLng) ==
    IF Len(coords) = 0 THEN NoClosest
    ELSE ScanCoordinates(coords, 1, targetLat, targetLng, NoClosest, Infinity)

\* findClosestCoordinate on an argument that may be undefined or null: the test
\* !coordinates of line 37 comes first
findClosestCoordinateOf(arg, targetLat, targetLng) ==
    IF arg.missing THEN NoClosest
    ELSE findClosestCoordinate(arg.items, targetLat, targetLng)

\* closest.aurora, or Undefined when there is no closest sample to read it from
ClosestAurora(coords, targetLat, targetLng) ==
    LET closest == findClosestCoordinate(coords, targetLat, targetLng)
    IN  IF closest = NoClosest THEN Undefined ELSE closest[3]

----------------------------------------------------------------------------
(* services/alert.js *)

\* INSERT ... ON CONFLICT(alert_id) DO UPDATE: the row of the alert is replaced,
\* or added when there is none.
\* Mutant: INSERT OR IGNORE, the row of an alert that has one is left as it is
updateNotificationState_InsertOrIgnore(state, alertId, auroraValue, t) ==
    IF \E r \in state : r.alert_id = alertId
    THEN state
    ELSE state \cup {[alert_id |-> alertId, last_notified_value |-> auroraValue,
                      last_notified_at |-> t]}

updateNotificationState(state, alertId, auroraValue, t) ==
    { r \in state : r.alert_id # alertId }
        \cup { [alert_id |-> alertId, last_notified_value |-> auroraValue, last_notified_at |-> t] }

\* storeAuroraHistory: one INSERT when the closest sample has a value; insertOk is
\* whether the INSERT succeeds.
\* Date.toISOString: the text of an instant, its date part and then its time part.
\* SQLite compares the TEXT of recorded_at with the text of the cutoff from left
\* to right.
toISOString(t) == << t \div 24, t % 24 >>

TextLess(a, b) == a[1] < b[1] \/ (a[1] = b[1] /\ a[2] < b[2])

\* Mutant: the comparison stops at the date part of the two texts
cleanupOldHistory_ByDate(history, t) ==
    LET twentyFourHoursAgo == toISOString(t - TwentyFourHours)
    IN  SelectSeq(history, LAMBDA r : ~(toISOString(r.recorded_at)[1] < twentyFourHoursAgo[1]))

\* Mutant: the DELETE has no WHERE clause
cleanupOldHistory_All(history, t) == << >>

\* cleanupOldHistory: DELETE FROM aurora_history WHERE recorded_at < ?  The rows
\* that remain; result.changes is the number of rows that do not.
cleanupOldHistory(history, t) ==
    LET twentyFourHoursAgo == toISOString(t - TwentyFourHours)
    IN  SelectSeq(history, LAMBDA r : ~TextLess(toISOString(r.recorded_at), twentyFourHoursAgo))

\* Mutant: the row is inserted whether or not the nearest sample has a value
storeAuroraHistory_Always(history, alert, coords, t, insertOk) ==
    [threw |-> FALSE,
     history |-> Append(history, [alert_id |-> alert.id,
                                  aurora_value |-> ClosestAurora(coords, alert.latitude,
                                                                 alert.longitude),
                                  recorded_at |-> t])]

\* Mutant: the new row is put in front of the stored ones
storeAuroraHistory_Prepend(history, alert, coords, t, insertOk) ==
    [threw |-> FALSE,
     history |-> << [alert_id |-> alert.id,
                     aurora_value |-> ClosestAurora(coords, alert.latitude, alert.longitude),
                     recorded_at |-> t] >> \o history]

\* storeAuroraHistory (alert.js:171-188): nothing is stored without a usable sample
storeAuroraHistory(history, alert, coords, t, insertOk) ==
    LET aurora == ClosestAurora(coords, alert.latitude, alert.longitude)
    IN  IF aurora = Undefined THEN [threw |-> FALSE, history |-> history]
        ELSE IF ~insertOk THEN [threw |-> TRUE, history |-> history]
        ELSE [threw |-> FALSE,
              history |-> Append(history, [alert_id |-> alert.id, aurora_value |-> aurora,
                                           recorded_at |-> t])]

\* alert.increment_threshold || 10
IncrementOrDefault(x) == IF x = NULL \/ x = 0 THEN 10 ELSE x

\* alert.js:129 reads the identifier shouldNotify.  No scope enclosing that line
\* declares it (line 55 declares a const of that name inside a block of
\* checkAllAlerts), so evaluating the condition throws a ReferenceError.
ShouldNotifyInScope == FALSE

\* Mutant: the increase is compared with zero, not with the increment threshold
DedupSkips_AnyIncrease(currentAuroraValue, incrementThreshold, lastNotifiedValue, lastNotifiedAt, t) ==
    LET twelveHoursAgo == t - TwelveHours
        isExpired == lastNotifiedAt = NULL \/ lastNotifiedAt < twelveHoursAgo
    IN  /\ lastNotifiedValue # NULL
        /\ ~isExpired
        /\ currentAuroraValue - lastNotifiedValue < 0

\* The deduplication test of lines 98-127: TRUE when the function returns false
\* at line 125.
DedupSkips(currentAuroraValue, incrementThreshold, lastNotifiedValue, lastNotifiedAt, t) ==
    LET twelveHoursAgo == t - TwelveHours
        isExpired == lastNotifiedAt = NULL \/ lastNotifiedAt < twelveHoursAgo
    IN  /\ lastNotifiedValue # NULL
        /\ ~isExpired
        /\ currentAuroraValue - lastNotifiedValue < incrementThreshold

\* Mutant: the threshold comparison is dead (never true)
BelowThreshold_Dead(currentAuroraValue, threshold) == FALSE

\* if (currentAuroraValue < threshold) of line 94
BelowThreshold(currentAuroraValue, threshold) == currentAuroraValue < threshold

\* Mutant: the notification state is written before the function returns false
ReturnsFalse_WritesState(state, sent, alert, value, t, how) ==
    [outcome |-> how, threw |-> FALSE, returned |-> FALSE,
     state |-> updateNotificationState(state, alert.id, value, t), outbox |-> sent]

\* Mutant: a state row is written with a plain INSERT before the function returns false
ReturnsFalse_InsertsStateRow(state, sent, alert, value, t, how) ==
    [outcome |-> how, threw |-> FALSE, returned |-> FALSE,
     state |-> state \cup {[alert_id |-> alert.id, last_notified_value |-> value,
                            last_notified_at |-> t]},
     outbox |-> sent]

\* return false of lines 86, 95 and 125: nothing is sent and nothing is written
ReturnsFalse(state, sent, alert, value, t, how) ==
    [outcome |-> how, threw |-> FALSE, returned |-> FALSE, state |-> state, outbox |-> sent]

\* checkSingleAlert on a row of the listing query.  sendOk: sendAuroraAlert resolves;
\* writeOk: the upsert of updateNotificationState succeeds.  A throw of either is
\* caught at line 160.
checkSingleAlert(state, sent, alert, coords, t, sendOk, writeOk) ==
    LET currentAuroraValue == ClosestAurora(coords, alert.latitude, alert.longitude)
        threshold == alert.threshold
        incrementThreshold == IncrementOrDefault(alert.increment_threshold)
        mail == [alert_id |-> alert.id, auroraValue |-> currentAuroraValue, at |-> t,
                 ok |-> sendOk]
    IN  IF currentAuroraValue = Undefined THEN ReturnsFalse(state, sent, alert, currentAuroraValue, t, "noData")
        ELSE IF BelowThreshold(currentAuroraValue, threshold)
             THEN ReturnsFalse(state, sent, alert, currentAuroraValue, t,
                               "belowThreshold")
        ELSE IF DedupSkips(currentAuroraValue, incrementThreshold,
                           alert.last_notified_value, alert.last_notified_at, t)
             THEN ReturnsFalse(state, sent, alert, currentAuroraValue, t, "skipped")
        ELSE IF ~ShouldNotifyInScope
             THEN [outcome |-> "ReferenceError", threw |-> TRUE, returned |-> FALSE,
                   state |-> state, outbox |-> sent]
        ELSE IF ~sendOk
             THEN [outcome |-> "sendFailed", threw |-> FALSE, returned |-> FALSE,
                   state |-> state, outbox |-> Append(sent, mail)]
        ELSE IF ~writeOk
             THEN [outcome |-> "stateWriteFailed", threw |-> FALSE, returned |-> FALSE,
                   state |-> state, outbox |-> Append(sent, mail)]
        ELSE [outcome |-> "sent", threw |-> FALSE, returned |-> TRUE,
              state |-> updateNotificationState(state, alert.id, currentAuroraValue, t),
              outbox |-> Append(sent, mail)]

\* Mutant: the history row is stored after the decision, for a notified alert only
CheckOne_StoresWhenNotified(history, state, sent, alert, coords, t, insertOk, sendOk, writeOk) ==
    LET checked == checkSingleAlert(state, sent, alert, coords, t, sendOk, writeOk)
        stored == storeAuroraHistory(history, alert, coords, t, insertOk)
    IN  [outcome |-> checked.outcome, threw |-> checked.threw,
         returned |-> checked.returned,
         history |-> IF checked.returned THEN stored.history ELSE history,
         state |-> checked.state, outbox |-> checked.outbox]

\* The body of the try block of the for loop (lines 50-58).
CheckOne(history, state, sent, alert, coords, t, insertOk, sendOk, writeOk) ==
    LET stored == storeAuroraHistory(history, alert, coords, t, insertOk)
    IN  IF stored.threw
        THEN [outcome |-> "historyError", threw |-> TRUE, returned |-> FALSE,
              history |-> history, state |-> state, outbox |-> sent]
        ELSE LET checked == checkSingleAlert(state, sent, alert, coords, t, sendOk, writeOk)
             IN  [outcome |-> checked.outcome, threw |-> checked.threw,
                  returned |-> checked.returned, history |-> stored.history,
                  state |-> checked.state, outbox |-> checked.outbox]

\* Mutant: an error of one alert leaves the loop
LoopContinues_UntilError(threw) == ~threw

\* The catch of the for loop (lines 59-61) logs and lets the loop go on, whether
\* or not the body threw.
LoopContinues(threw) == TRUE

\* const coordinates = auroraData.coordinates || []
CoordinatesOf(data) == IF data.hasCoordinates THEN data.coordinates ELSE <<>>

\* Mutant: only a failed fetch ends the run; an empty collection does not
AbortsBeforeListing_OnErrorOnly(data) == data.kind = "error"

\* checkAllAlerts returns at line 25 (or through the catch of line 65) before the
\* listing query
AbortsBeforeListing(data) == data.kind = "error" \/ Len(CoordinatesOf(data)) = 0

RECURSIVE RowsById(_)
RowsById(rows) ==
    IF rows = {} THEN <<>>
    ELSE LET first == CHOOSE r \in rows : \A q \in rows : r.id <= q.id
         IN  <<first>> \o RowsById(rows \ {first})

\* The listing query: alerts LEFT JOIN alert_notification_state (the INNER JOIN
\* with users keeps every alert, as the foreign key gives each alert its user).
ListAlertsNow(alertRows, stateRows) ==
    RowsById(
        { [id |-> a.id, user_id |-> a.user_id, latitude |-> a.latitude,
           longitude |-> a.longitude, threshold |-> a.threshold,
           increment_threshold |-> a.increment_threshold,
           last_notified_value |-> NULL, last_notified_at |-> NULL] :
            a \in { b \in alertRows : \A r \in stateRows : r.alert_id # b.id } }
        \cup
        { [id |-> p[1].id, user_id |-> p[1].user_id, latitude |-> p[1].latitude,
           longitude |-> p[1].longitude, threshold |-> p[1].threshold,
           increment_threshold |-> p[1].increment_threshold,
           last_notified_value |-> p[2].last_notified_value,
           last_notified_at |-> p[2].last_notified_at] :
            p \in { q \in alertRows \X stateRows : q[2].alert_id = q[1].id } })

\* Mutant: the thresholds are those the alerts were created with, not the stored ones
ListAlerts_CreationThresholds(alertRows, stateRows) ==
    ListAlertsNow({ [a EXCEPT !.threshold = 15, !.increment_threshold = 10] : a \in alertRows },
                  stateRows)

\* The listing query of lines 29-43, run on the tables as they are
ListAlerts(alertRows, stateRows) == ListAlertsNow(alertRows, stateRows)

----------------------------------------------------------------------------
(* geocoding.js *)

\* Coordinates given to getCachedCityName, in units of 0.00001 degree, and the
\* callers that can have a call in progress at the same time
GeoLatitudes == {6000000, 6000004, 6000006}
GeoLongitudes == {0 - 4}
Callers == {1, 2}

\* Number.prototype.toFixed(4): the sign, and the magnitude rounded to 0.0001
toFixed4(x) ==
    [negative |-> x < 0, digits |-> ((IF x < 0 THEN 0 - x ELSE x) + 5) \div 10]

\* const cacheKey = `${latitude.toFixed(4)},${longitude.toFixed(4)}`
cacheKey(latitude, longitude) == << toFixed4(latitude), toFixed4(longitude) >>

CacheKeys == { cacheKey(lat, lng) : lat \in GeoLatitudes, lng \in GeoLongitudes }

\* The answers of the geocoding service: no answer or a status that is not ok
\* (fetch rejects or response.ok is false), or a document whose address has a
\* city or nothing
NoName == ""
GeoResponses ==
    { [ok |-> FALSE, city |-> NoName, country |-> NoName],
      [ok |-> TRUE, city |-> "Tromso", country |-> "Norway"],
      [ok |-> TRUE, city |-> NoName, country |-> NoName] }

\* What a call that threw gives its caller
Thrown == "Error"

\* Mutant: getCityName has no try/catch
getCityName_NoCatch(response) ==
    IF ~response.ok THEN Thrown
    ELSE IF response.city # NoName THEN response.city
    ELSE IF response.country # NoName THEN response.country
    ELSE "Unknown Location"

\* getCityName (lines 14-50): the first address component present, 'Unknown
\* Location' when there is none or when anything in the try block threw
getCityName(response) ==
    IF ~response.ok THEN "Unknown Location"
    ELSE IF response.city # NoName THEN response.city
    ELSE IF response.country # NoName THEN response.country
    ELSE "Unknown Location"

\* The Map cityCache; NoEntry is what Map.get gives for a key not present
NoEntry == [cityName |-> NoName, timestamp |-> NULL]
EmptyCache == [k \in CacheKeys |-> NoEntry]

\* Mutant: a cached entry never expires
IsFresh_Forever(cached, t) == cached # NoEntry

\* cached && Date.now() - cached.timestamp < 24 * 60 * 60 * 1000 (line 63)
IsFresh(cached, t) == cached # NoEntry /\ t - cached.timestamp < TwentyFourHours

\* A call of getCachedCityName: not made, awaiting getCityName, returned or rejected
NoGeoCall ==
    [state |-> "idle", latitude |-> 0, longitude |-> 0, result |-> NoName,
     lookedUp |-> FALSE, lookupOk |-> TRUE]
NoGeoCalls == [c \in Callers |-> NoGeoCall]
NoLookups == [k \in CacheKeys |-> << >>]

----------------------------------------------------------------------------
(* The initialisation of the database: schema migration and CREATE TABLE *)

\* A table that does not exist, and alerts_new as CREATE TABLE leaves it
NoTable == [exists |-> FALSE, rows |-> {}]
EmptyTable == [exists |-> TRUE, rows |-> {}]

\* The statements of the migration that can throw, in their order
MigrationSteps == << "create", "copy", "drop", "rename", "index" >>
FailurePoints == { MigrationSteps[k] : k \in DOMAIN MigrationSteps } \cup {"none"}

\* No initialisation has been observed
NoInit ==
    [n |-> 0, ran |-> FALSE, failedAt |-> "none", recovery |-> "none", foreign_keys |-> TRUE,
     before |-> {}, stateBefore |-> {}, historyBefore |-> << >>]

\* tableInfo.sql.includes('threshold <= 9') || !tableInfo.sql.includes('increment_threshold')
needsMigration(d) == d.thresholdMax = 9 \/ ~d.hasIncrementColumn

\* Mutant: the pragma has no effect
pragmaOff_Ignored(d) == d

\* db.pragma('foreign_keys = OFF')
pragmaOff(d) == [d EXCEPT !.foreign_keys = FALSE]

\* db.pragma('foreign_keys = ON')
pragmaOn(d) == [d EXCEPT !.foreign_keys = TRUE]

\* DROP TABLE IF EXISTS alerts_new, inside its own try: a failure is ignored
DropLeftover(d, ok) == IF ok THEN [d EXCEPT !.alerts_new = NoTable] ELSE d

\* CREATE TABLE alerts_new throws when the table exists
CreateNewThrows(d) == d.alerts_new.exists

CreateNew(d) == [d EXCEPT !.alerts_new = EmptyTable]

\* The row INSERT INTO alerts_new ... SELECT gives for row a of alerts: the
\* increment threshold is COALESCE(increment_threshold, 10) when the old table has
\* the column and 10 when it has not
CopiedRow(a, hasIncrementThreshold) ==
    [a EXCEPT !.increment_threshold =
        IF hasIncrementThreshold /\ a.increment_threshold # NULL THEN a.increment_threshold
        ELSE 10]

CopyRows(d) ==
    [d EXCEPT !.alerts_new.rows = { CopiedRow(a, d.hasIncrementColumn) : a \in d.alerts }]

\* DROP TABLE alerts: with foreign keys enforced the implicit DELETE of its rows
\* cascades to the tables that reference it; the table's row of sqlite_sequence
\* goes with it
DropAlerts(d) ==
    [d EXCEPT !.alertsExists = FALSE,
              !.alerts = {},
              !.seq = 0,
              !.state = IF d.foreign_keys
                        THEN { r \in d.state : \A a \in d.alerts : a.id # r.alert_id }
                        ELSE d.state,
              !.history = IF d.foreign_keys
                          THEN SelectSeq(d.history,
                                         LAMBDA r : \A a \in d.alerts : a.id # r.alert_id)
                          ELSE d.history]

\* ALTER TABLE alerts_new RENAME TO alerts; the rows of alerts_new were inserted
\* with their ids, so its sqlite_sequence row holds the largest of them
RenameNew(d) ==
    [d EXCEPT !.alertsExists = TRUE,
              !.alerts = d.alerts_new.rows,
              !.seq = IF d.alerts_new.rows = {} THEN 0
                      ELSE CHOOSE n \in { a.id : a \in d.alerts_new.rows } :
                              \A a \in d.alerts_new.rows : a.id <= n,
              !.hasIncrementColumn = TRUE,
              !.thresholdMax = 100,
              !.alerts_new = NoTable]

\* The database when the statement failAt of the migration throws: the statements
\* before it have run, each in its own implicit transaction
ThrownAt(d, failAt, dropLeftoverOk) ==
    LET s2 == DropLeftover(pragmaOff(d), dropLeftoverOk)
        s3 == CreateNew(s2)
        s4 == CopyRows(s3)
        s5 == DropAlerts(s4)
        s6 == RenameNew(s5)
    IN  IF failAt = "create" \/ CreateNewThrows(s2) THEN s2
        ELSE IF failAt = "copy" THEN s3
        ELSE IF failAt = "drop" THEN s4
        ELSE IF failAt = "rename" THEN s5
        ELSE s6

\* The step that threw, "none" when the migration ran to its end
FailedStep(d, failAt, dropLeftoverOk) ==
    IF CreateNewThrows(DropLeftover(pragmaOff(d), dropLeftoverOk)) THEN "create" ELSE failAt

\* The catch block (lines 228-247): when alerts is gone and alerts_new exists the
\* rename is tried again; foreign keys are switched on whether or not it worked
Recover(d, recoveryOk) ==
    LET c == pragmaOff(d)
    IN  IF ~c.alertsExists /\ c.alerts_new.exists /\ recoveryOk
        THEN pragmaOn(RenameNew(c))
        ELSE pragmaOn(c)

\* What the catch block did
RecoveryOf(d, recoveryOk) ==
    IF d.alertsExists \/ ~d.alerts_new.exists THEN "none"
    ELSE IF recoveryOk THEN "renamed"
    ELSE "failed"

\* CREATE TABLE IF NOT EXISTS alerts (lines 259-269)
CreateTables(d) ==
    IF d.alertsExists THEN d
    ELSE [d EXCEPT !.alertsExists = TRUE, !.alerts = {}, !.hasIncrementColumn = TRUE,
                   !.thresholdMax = 100]

\* The module body of database.js (lines 147-294) run on database d
initDatabase(d, failAt, dropLeftoverOk, recoveryOk) ==
    IF ~needsMigration(d) THEN CreateTables(pragmaOn(d))
    ELSE IF FailedStep(d, failAt, dropLeftoverOk) = "none"
         THEN CreateTables(pragmaOn(ThrownAt(d, "none", dropLeftoverOk)))
    ELSE CreateTables(Recover(ThrownAt(d, failAt, dropLeftoverOk), recoveryOk))

----------------------------------------------------------------------------
(* The state machine *)

NotEvaluated ==
    [done |-> FALSE, value |-> Undefined, at |-> 0, outcome |-> "none", threw |-> FALSE,
     appended |-> FALSE, dispatched |-> FALSE, wrote |-> FALSE]

\* A run that has not started
IdleRun ==
    [pc |-> "idle", auroraData |-> NotFetched, listed |-> <<>>, idx |-> 1,
     notificationsSent |-> 0, lastLog |-> "none",
     evaluated |-> [id \in AlertIds |-> NotEvaluated]]

\* No prune, CRUD request or upsert yet
\* No function called yet
NoCall == [fn |-> "none", args |-> <<>>, returned |-> FALSE, result |-> <<>>]

NoOp == [op |-> "none", id |-> NULL, value |-> NULL, at |-> NULL, ok |-> TRUE, n |-> 0,
         inFlight |-> FALSE]

AlertRow(id, threshold, increment) ==
    [id |-> id, user_id |-> 1, latitude |-> AlertLatitude(id), longitude |-> AlertLongitude(id),
     threshold |-> threshold, increment_threshold |-> increment]

StateRows ==
    [alert_id : AlertIds, last_notified_value : PriorValues, last_notified_at : PriorTimes]

\* The database file outlives the process: at start it holds the alerts the CRUD
\* layer stored and the notification state earlier runs left, at most one row per
\* alert (alert_id is UNIQUE).  Its alerts table has the increment_threshold
\* column or, when db/database.js created it, has not.
Init ==
    /\ now = TwelveHours
    /\ hasIncrementColumn \in BOOLEAN
    /\ \E th \in [AlertIds -> Thresholds], inc \in [AlertIds -> Increments] :
          alerts = { AlertRow(id, th[id], inc[id]) : id \in AlertIds }
    /\ alert_notification_state \in
          { S \in SUBSET StateRows : \A r, q \in S : r.alert_id = q.alert_id => r = q }
    /\ aurora_history = <<>>
    /\ outbox = <<>>
    /\ pc = "idle"
    /\ auroraData = NotFetched
    /\ listed = <<>>
    /\ idx = 1
    /\ notificationsSent = 0
    /\ lastLog = "none"
    /\ evaluated = [id \in AlertIds |-> NotEvaluated]
    /\ other = IdleRun
    /\ scheduler = "running"
    /\ lastOp = NoOp
    /\ call = NoCall
    /\ cityCache = EmptyCache /\ geoCalls = NoGeoCalls /\ lookups = NoLookups
    /\ thresholdMax = 100 /\ alerts_new = NoTable /\ lastInit = NoInit
    /\ sqlite_sequence = 2

\* The scheduler calls checkAllAlerts (at startup and at each cron tick); the run
\* suspends at the await of fetchAuroraData.
StartCheck ==
    /\ pc \in {"idle", "done"}
    /\ Len(aurora_history) + Cardinality(alerts) <= MaxHistory
    /\ pc' = "fetching"
    /\ auroraData' = NotFetched
    /\ listed' = <<>>
    /\ idx' = 1
    /\ notificationsSent' = 0
    /\ lastLog' = "Starting alert check"
    /\ evaluated' = [id \in AlertIds |-> NotEvaluated]
    /\ UNCHANGED << now, hasIncrementColumn, alerts, alert_notification_state,
                    aurora_history, outbox >>
    /\ UNCHANGED appVars

\* Mutant: the catch of checkAllAlerts rethrows, and the promise of the run rejects
OuterCatch_Rethrows == "rejected"

\* The catch of lines 65-67 logs the error; checkAllAlerts then returns normally.
OuterCatch == "done"

\* checkAllAlerts from the settling of fetchAuroraData to the first await of the
\* loop (lines 20-49).  The listing query throws when the alerts table has no
\* increment_threshold column.
AfterFetch(data, hasColumn, alertRows, stateRows) ==
    IF data.kind = "error"
    THEN [pc |-> OuterCatch, lastLog |-> "Error during alert check", listed |-> <<>>]
    ELSE IF AbortsBeforeListing(data)
    THEN [pc |-> "done", lastLog |-> "No coordinates in aurora data", listed |-> <<>>]
    ELSE IF ~hasColumn
    THEN [pc |-> OuterCatch, lastLog |-> "Error during alert check", listed |-> <<>>]
    ELSE LET rows == ListAlerts(alertRows, stateRows)
         IN  [pc |-> IF Len(rows) = 0 THEN "done" ELSE "loop",
              lastLog |-> IF Len(rows) = 0 THEN "Completed" ELSE "Checking alerts",
              listed |-> rows]

\* fetchAuroraData settles and checkAllAlerts runs on to the first await of the loop.
FetchReturns ==
    /\ pc = "fetching"
    /\ \E data \in FetchResults :
          LET after == AfterFetch(data, hasIncrementColumn, alerts, alert_notification_state)
          IN  /\ auroraData' = data
              /\ pc' = after.pc
              /\ lastLog' = after.lastLog
              /\ listed' = after.listed
    /\ idx' = 1
    /\ UNCHANGED << now, hasIncrementColumn, alerts, alert_notification_state,
                    aurora_history, outbox, notificationsSent, evaluated >>
    /\ UNCHANGED appVars

\* Whether a call to the database or to the mail service succeeds is for the
\* environment to decide, when the call is made.
Answers(called) == IF called THEN BOOLEAN ELSE {TRUE}

\* The new tables and the new locals of a run after the iteration for row alert,
\* whose nearest value is value and whose try block gave res; and the end of the
\* run after the last iteration (line 64).
AfterIteration(history, state, sent, run, t, alert, value, res) ==
    [history |-> res.history,
     state |-> res.state,
     outbox |-> res.outbox,
     notificationsSent |-> IF res.returned THEN run.notificationsSent + 1
                                           ELSE run.notificationsSent,
     evaluated |-> [run.evaluated EXCEPT ![alert.id] =
          [done |-> TRUE,
           value |-> value,
           at |-> t,
           outcome |-> res.outcome,
           threw |-> res.threw,
           appended |-> res.history # history,
           dispatched |-> res.outbox # sent,
           wrote |-> res.state # state]],
     idx |-> run.idx + 1,
     pc |-> IF ~LoopContinues(res.threw) THEN OuterCatch
            ELSE IF run.idx < Len(run.listed) THEN "loop"
            ELSE "done",
     lastLog |-> IF ~LoopContinues(res.threw) THEN "Error during alert check"
                 ELSE IF run.idx < Len(run.listed) THEN run.lastLog
                 ELSE "Completed"]

\* One iteration of the for loop of checkAllAlerts (lines 49-62), for the row
\* listed[idx] of the run
Iteration(history, state, sent, run, t, insertOk, sendOk, writeOk) ==
    AfterIteration(history, state, sent, run, t, run.listed[run.idx],
                   ClosestAurora(CoordinatesOf(run.auroraData),
                                 run.listed[run.idx].latitude,
                                 run.listed[run.idx].longitude),
                   CheckOne(history, state, sent, run.listed[run.idx],
                            CoordinatesOf(run.auroraData), t, insertOk, sendOk, writeOk))

\* The locals of the run of pc .. evaluated, as a record
ThisRun ==
    [pc |-> pc, auroraData |-> auroraData, listed |-> listed, idx |-> idx,
     notificationsSent |-> notificationsSent, lastLog |-> lastLog, evaluated |-> evaluated]

\* One iteration of the for loop.  The INSERT of storeAuroraHistory, the call of
\* sendAuroraAlert and the upsert of updateNotificationState may each fail when
\* the iteration gets to them.
ProcessAlert ==
    /\ pc = "loop"
    /\ idx <= Len(listed)
    /\ \E reached \in { Iteration(aurora_history, alert_notification_state, outbox, ThisRun,
                                   now, TRUE, TRUE, TRUE) } :
       \E insertOk \in Answers(reached.history # aurora_history),
          sendOk \in Answers(reached.outbox # outbox),
          writeOk \in Answers(reached.state # alert_notification_state) :
          \E res \in { Iteration(aurora_history, alert_notification_state, outbox, ThisRun,
                                 now, insertOk, sendOk, writeOk) } :
              /\ aurora_history' = res.history
              /\ alert_notification_state' = res.state
              /\ outbox' = res.outbox
              /\ notificationsSent' = res.notificationsSent
              /\ evaluated' = res.evaluated
              /\ idx' = res.idx
              /\ pc' = res.pc
              /\ lastLog' = res.lastLog
    /\ UNCHANGED << now, hasIncrementColumn, alerts, auroraData, listed >>
    /\ UNCHANGED appVars

\* The clock advances.
Tick ==
    /\ now < MaxTime
    /\ now' = now + 1
    /\ UNCHANGED << hasIncrementColumn, alerts, alert_notification_state, aurora_history,
                    outbox, pc, auroraData, listed, idx, notificationsSent, lastLog,
                    evaluated >>
    /\ UNCHANGED appVars

Next == StartCheck \/ FetchReturns \/ ProcessAlert \/ Tick

Spec == Init /\ [][Next]_vars

----------------------------------------------------------------------------
(* updateNotificationState as a function of the table: its arguments are drawn
   from the alerts of the database and the values of the feed *)

UpsertInit ==
    /\ Init
    /\ hasIncrementColumn
    /\ \A a \in alerts : a.threshold = 15

\* updateNotificationState(alertId, auroraValue) is called (alert.js:195-206)
CallUpdateNotificationState ==
    /\ \E alertId \in { a.id : a \in alerts }, auroraValue \in AuroraValues :
          /\ alert_notification_state' =
                updateNotificationState(alert_notification_state, alertId, auroraValue, now)
          /\ lastOp' = [op |-> "upsert", id |-> alertId, value |-> auroraValue, at |-> now,
                        ok |-> TRUE,
                        n |-> Cardinality({ r \in alert_notification_state :
                                              r.alert_id = alertId }),
                        inFlight |-> FALSE]
    /\ UNCHANGED << now, hasIncrementColumn, alerts, aurora_history, outbox, pc, auroraData,
                    listed, idx, notificationsSent, lastLog, evaluated, other, scheduler >>
    /\ UNCHANGED libVars

UpsertNext == CallUpdateNotificationState \/ Tick

UpsertSpec == UpsertInit /\ [][UpsertNext]_vars

----------------------------------------------------------------------------
----------------------------------------------------------------------------
(* findClosestCoordinate as a function of its arguments *)

\* Points [longitude, latitude] of which several are equally far from a target
TiePoints == { <<0, 0>>, <<60, 0>>, <<300, 0>>, <<0, 60>> }
TieSamples == { <<p[1], p[2], v>> : p \in TiePoints, v \in AuroraValues }

\* Targets (latitude, longitude)
Targets == { <<0, 0>>, <<60, 0>> }

\* The arrays of at most n samples
RECURSIVE ArraysUpTo(_)
ArraysUpTo(n) ==
    IF n = 0 THEN { <<>> }
    ELSE ArraysUpTo(n - 1) \cup
         { Append(a, x) : a \in { b \in ArraysUpTo(n - 1) : Len(b) = n - 1 },
                          x \in TieSamples }

\* The first argument of findClosestCoordinate: no array, or an array
CoordinateArgs ==
    { [missing |-> TRUE, items |-> <<>>] } \cup
    { [missing |-> FALSE, items |-> a] : a \in ArraysUpTo(MaxSamples) }

\* A database with two alerts, no run started, and the arguments of one call
ClosestInit ==
    /\ now = TwelveHours
    /\ hasIncrementColumn = TRUE
    /\ alerts = { AlertRow(id, 15, 10) : id \in AlertIds }
    /\ alert_notification_state = {}
    /\ aurora_history = <<>>
    /\ outbox = <<>>
    /\ pc = "idle"
    /\ auroraData = NotFetched
    /\ listed = <<>>
    /\ idx = 1
    /\ notificationsSent = 0
    /\ lastLog = "none"
    /\ evaluated = [id \in AlertIds |-> NotEvaluated]
    /\ other = IdleRun
    /\ scheduler = "running"
    /\ lastOp = NoOp
    /\ \E arg \in CoordinateArgs, target \in Targets :
          call = [fn |-> "findClosestCoordinate", args |-> << arg, target[1], target[2] >>,
                  returned |-> FALSE, result |-> <<>>]
    /\ cityCache = EmptyCache /\ geoCalls = NoGeoCalls /\ lookups = NoLookups
    /\ thresholdMax = 100 /\ alerts_new = NoTable /\ lastInit = NoInit
    /\ sqlite_sequence = 2

\* findClosestCoordinate(coordinates, targetLat, targetLng) runs and returns
CallFindClosestCoordinate ==
    /\ call.fn = "findClosestCoordinate"
    /\ ~call.returned
    /\ call' = [call EXCEPT !.returned = TRUE,
                            !.result = findClosestCoordinateOf(call.args[1], call.args[2],
                                                               call.args[3])]
    /\ UNCHANGED << now, hasIncrementColumn, alerts, alert_notification_state,
                    aurora_history, outbox, pc, auroraData, listed, idx, notificationsSent,
                    lastLog, evaluated, other, scheduler, lastOp, cityCache, geoCalls,
                    lookups, thresholdMax, alerts_new, lastInit, sqlite_sequence >>

ClosestNext == CallFindClosestCoordinate

ClosestSpec == ClosestInit /\ [][ClosestNext]_vars

----------------------------------------------------------------------------
(* getCachedCityName called by the alerts API and the notification path *)

\* A process that has just started: the cache is empty and no call is in progress
GeoInit ==
    /\ now = 0
    /\ hasIncrementColumn = TRUE
    /\ alerts = { AlertRow(id, 15, 10) : id \in AlertIds }
    /\ alert_notification_state = {}
    /\ aurora_history = <<>>
    /\ outbox = <<>>
    /\ pc = "idle"
    /\ auroraData = NotFetched
    /\ listed = <<>>
    /\ idx = 1
    /\ notificationsSent = 0
    /\ lastLog = "none"
    /\ evaluated = [id \in AlertIds |-> NotEvaluated]
    /\ other = IdleRun
    /\ scheduler = "running"
    /\ lastOp = NoOp
    /\ call = NoCall
    /\ cityCache = EmptyCache /\ geoCalls = NoGeoCalls /\ lookups = NoLookups
    /\ thresholdMax = 100 /\ alerts_new = NoTable /\ lastInit = NoInit
    /\ sqlite_sequence = 2

\* The number of getCityName calls made so far
RECURSIVE SumLen(_, _)
SumLen(f, keys) ==
    IF keys = {} THEN 0
    ELSE LET k == CHOOSE x \in keys : TRUE IN Len(f[k]) + SumLen(f, keys \ {k})

\* What the geocoding calls leave alone
engineVars ==
    << hasIncrementColumn, alerts, alert_notification_state, aurora_history, outbox, pc,
       auroraData, listed, idx, notificationsSent, lastLog, evaluated, other, scheduler,
       lastOp, call, thresholdMax, alerts_new, lastInit, sqlite_sequence >>

\* getCachedCityName(latitude, longitude) is called (lines 58-68): with a fresh
\* entry it returns the cached name; otherwise it calls getCityName, whose fetch
\* (line 19) suspends the call.
CallGetCachedCityName ==
    /\ \E c \in Callers, latitude \in GeoLatitudes, longitude \in GeoLongitudes :
          LET key == cacheKey(latitude, longitude)
              cached == cityCache[key]
          IN  /\ geoCalls[c].state # "pending"
              /\ IF IsFresh(cached, now)
                 THEN /\ geoCalls' = [geoCalls EXCEPT ![c] =
                            [state |-> "returned", latitude |-> latitude,
                             longitude |-> longitude, result |-> cached.cityName,
                             lookedUp |-> FALSE, lookupOk |-> TRUE]]
                      /\ UNCHANGED lookups
                 ELSE /\ SumLen(lookups, CacheKeys) < MaxLookups
                      /\ geoCalls' = [geoCalls EXCEPT ![c] =
                            [state |-> "pending", latitude |-> latitude,
                             longitude |-> longitude, result |-> NoName,
                             lookedUp |-> TRUE, lookupOk |-> TRUE]]
                      /\ lookups' = [lookups EXCEPT ![key] = Append(@, now)]
    /\ UNCHANGED << now, cityCache >>
    /\ UNCHANGED engineVars

\* The fetch of getCityName settles (lines 19-49) and getCachedCityName resumes
\* (lines 68-74): the name is stored under the key with the time of the store.
\* If getCityName threw, the call would be rejected at line 68.
LookupSettles ==
    /\ \E c \in Callers, response \in GeoResponses :
          LET key == cacheKey(geoCalls[c].latitude, geoCalls[c].longitude)
              cityName == getCityName(response)
          IN  /\ geoCalls[c].state = "pending"
              /\ IF cityName = Thrown
                 THEN /\ geoCalls' = [geoCalls EXCEPT ![c].state = "rejected",
                                                       ![c].lookupOk = response.ok]
                      /\ UNCHANGED cityCache
                 ELSE /\ geoCalls' = [geoCalls EXCEPT ![c].state = "returned",
                                                       ![c].result = cityName,
                                                       ![c].lookupOk = response.ok]
                      /\ cityCache' = [cityCache EXCEPT ![key] =
                                          [cityName |-> cityName, timestamp |-> now]]
    /\ UNCHANGED << now, lookups >>
    /\ UNCHANGED engineVars

\* Twelve hours pass
GeoTick ==
    /\ now + TwelveHours < MaxTime + TwelveHours
    /\ now' = now + TwelveHours
    /\ UNCHANGED << cityCache, geoCalls, lookups >>
    /\ UNCHANGED engineVars

GeoNext == CallGetCachedCityName \/ LookupSettles \/ GeoTick

GeoSpec == GeoInit /\ [][GeoNext]_vars

----------------------------------------------------------------------------
(* The process: jobs/scheduler.js, the second run that the scheduler can start
   while one is in flight, the hourly prune and DELETE /api/alerts/:id *)

\* The process starts one hour after the 24 hours of retention are over
AppStart == TwentyFourHours + 1

\* History rows written by an earlier process: 25 and 24 hours before the start
OldRecord(id, t) == [alert_id |-> id, aurora_value |-> 20, recorded_at |-> t]
OldHistory ==
    << OldRecord(1, AppStart - 25), OldRecord(2, AppStart - 25),
       OldRecord(1, AppStart - 24), OldRecord(2, AppStart - 24) >>

AppInit ==
    /\ now = AppStart
    /\ hasIncrementColumn = TRUE
    /\ alerts = { AlertRow(id, 15, 10) : id \in AlertIds }
    /\ alert_notification_state =
          { [alert_id |-> id, last_notified_value |-> 20, last_notified_at |-> 1] :
              id \in AlertIds }
    /\ aurora_history = OldHistory
    /\ outbox = <<>>
    /\ pc = "idle"
    /\ auroraData = NotFetched
    /\ listed = <<>>
    /\ idx = 1
    /\ notificationsSent = 0
    /\ lastLog = "none"
    /\ evaluated = [id \in AlertIds |-> NotEvaluated]
    /\ other = IdleRun
    /\ scheduler = "off"
    /\ lastOp = NoOp
    /\ call = NoCall
    /\ cityCache = EmptyCache /\ geoCalls = NoGeoCalls /\ lookups = NoLookups
    /\ thresholdMax = 100 /\ alerts_new = NoTable /\ lastInit = NoInit
    /\ sqlite_sequence = 2

\* A run between its call and its end
InFlight(p) == p \in {"fetching", "loop"}

\* The loop of checkAllAlerts awaits only promises that are already settled
\* (storeAuroraHistory and checkSingleAlert do no I/O before alert.js:129), so a
\* run goes from the settling of its fetch to its end without the event loop
\* taking a timer callback, a fetch result or a request in between.
EventLoopFree == pc # "loop" /\ other.pc # "loop"

\* The rows appended since the process started
FreshRows(history) == Len(SelectSeq(history, LAMBDA r : r.recorded_at >= AppStart))

\* A run that has just been called: checkAllAlerts up to its await of the fetch
StartedRun ==
    [pc |-> "fetching", auroraData |-> NotFetched, listed |-> <<>>, idx |-> 1,
     notificationsSent |-> 0, lastLog |-> "Starting alert check",
     evaluated |-> [id \in AlertIds |-> NotEvaluated]]

\* The record of a call of cleanupOldHistory: whether its DELETE ran, the number
\* of rows it deleted, and whether a run of checkAllAlerts was in flight
CleanupOp(history, t, ok, inFlight) ==
    [op |-> "cleanup", id |-> NULL, value |-> NULL, at |-> t, ok |-> ok,
     n |-> IF ok THEN Len(history) - Len(cleanupOldHistory(history, t)) ELSE 0,
     inFlight |-> inFlight]

\* startScheduler (scheduler.js:12-37): both cron jobs are registered, then
\* checkAllAlerts is called without await, then cleanupOldHistory is called with
\* no try around it.  When its DELETE throws, the exception leaves startScheduler
\* and the listen callback of server.js:70-86, which nothing catches.
StartScheduler ==
    /\ scheduler = "off"
    /\ pc' = StartedRun.pc
    /\ auroraData' = StartedRun.auroraData
    /\ listed' = StartedRun.listed
    /\ idx' = StartedRun.idx
    /\ notificationsSent' = StartedRun.notificationsSent
    /\ lastLog' = StartedRun.lastLog
    /\ evaluated' = StartedRun.evaluated
    /\ \E deleteOk \in BOOLEAN :
          /\ aurora_history' = IF deleteOk THEN cleanupOldHistory(aurora_history, now)
                                            ELSE aurora_history
          /\ lastOp' = CleanupOp(aurora_history, now, deleteOk, TRUE)
          /\ scheduler' = IF deleteOk THEN "running" ELSE "crashed"
    /\ UNCHANGED << now, hasIncrementColumn, alerts, alert_notification_state, outbox, other >>
    /\ UNCHANGED libVars

\* The callback of cron.schedule('*/5 * * * *') (scheduler.js:16-19): it calls
\* checkAllAlerts whether or not an earlier run is still in flight.
CronAlertCheck ==
    /\ scheduler = "running"
    /\ EventLoopFree
    /\ FreshRows(aurora_history) + Cardinality(alerts) <= MaxHistory
    /\ \/ /\ ~InFlight(pc)
          /\ pc' = StartedRun.pc
          /\ auroraData' = StartedRun.auroraData
          /\ listed' = StartedRun.listed
          /\ idx' = StartedRun.idx
          /\ notificationsSent' = StartedRun.notificationsSent
          /\ lastLog' = StartedRun.lastLog
          /\ evaluated' = StartedRun.evaluated
          /\ UNCHANGED other
       \/ /\ InFlight(pc)
          /\ ~InFlight(other.pc)
          /\ other' = StartedRun
          /\ UNCHANGED << pc, auroraData, listed, idx, notificationsSent, lastLog, evaluated >>
    /\ UNCHANGED << now, hasIncrementColumn, alerts, alert_notification_state,
                    aurora_history, outbox, scheduler, lastOp >>
    /\ UNCHANGED libVars

\* The callback of cron.schedule('0 * * * *') (scheduler.js:22-25).  node-cron is
\* not part of the source: a throw of the callback either stays in the library
\* or ends the process.
CronCleanup ==
    /\ scheduler = "running"
    /\ EventLoopFree
    /\ \E deleteOk \in BOOLEAN :
          /\ aurora_history' = IF deleteOk THEN cleanupOldHistory(aurora_history, now)
                                            ELSE aurora_history
          /\ lastOp' = CleanupOp(aurora_history, now, deleteOk,
                                 InFlight(pc) \/ InFlight(other.pc))
          /\ scheduler' \in IF deleteOk THEN {"running"} ELSE {"running", "crashed"}
    /\ UNCHANGED << now, hasIncrementColumn, alerts, alert_notification_state, outbox, pc,
                    auroraData, listed, idx, notificationsSent, lastLog, evaluated, other >>
    /\ UNCHANGED libVars

\* The answers of the feed while the process runs: an error, or a grid of two
\* samples of which the first has value 20 or 32 and the second has value 20
AppFeed ==
    {FetchError} \cup
    { d \in Documents : /\ Len(d.coordinates) = 2
                        /\ d.coordinates[1][1] = 0
                        /\ d.coordinates[1][3] # Undefined
                        /\ d.coordinates[2][3] = 20 }

\* The fetch of the first run settles
AppFetchReturns ==
    /\ scheduler = "running"
    /\ EventLoopFree
    /\ FetchReturns
    /\ auroraData' \in AppFeed

\* One iteration of the loop of the first run.  While the process is observed
\* the database accepts the INSERT of storeAuroraHistory; its failure is part of
\* Spec.
AppProcessAlert ==
    /\ scheduler = "running"
    /\ ProcessAlert
    /\ \A id \in AlertIds : evaluated'[id].outcome # "historyError"

\* The fetch of the second run settles
OtherFetchReturns ==
    /\ scheduler = "running"
    /\ EventLoopFree
    /\ other.pc = "fetching"
    /\ \E data \in AppFeed :
          LET after == AfterFetch(data, hasIncrementColumn, alerts, alert_notification_state)
          IN  other' = [other EXCEPT !.auroraData = data, !.pc = after.pc,
                                     !.lastLog = after.lastLog, !.listed = after.listed,
                                     !.idx = 1]
    /\ UNCHANGED << now, hasIncrementColumn, alerts, alert_notification_state,
                    aurora_history, outbox, pc, auroraData, listed, idx, notificationsSent,
                    lastLog, evaluated, scheduler, lastOp >>
    /\ UNCHANGED libVars

\* One iteration of the loop of the second run
OtherProcessAlert ==
    /\ scheduler = "running"
    /\ other.pc = "loop"
    /\ other.idx <= Len(other.listed)
    /\ \E reached \in { Iteration(aurora_history, alert_notification_state, outbox, other,
                                   now, TRUE, TRUE, TRUE) } :
       \E insertOk \in {TRUE},
          sendOk \in Answers(reached.outbox # outbox),
          writeOk \in Answers(reached.state # alert_notification_state) :
          \E res \in { Iteration(aurora_history, alert_notification_state, outbox, other,
                                 now, insertOk, sendOk, writeOk) } :
              /\ aurora_history' = res.history
              /\ alert_notification_state' = res.state
              /\ outbox' = res.outbox
              /\ other' = [other EXCEPT !.notificationsSent = res.notificationsSent,
                                         !.evaluated = res.evaluated, !.idx = res.idx,
                                         !.pc = res.pc, !.lastLog = res.lastLog]
    /\ UNCHANGED << now, hasIncrementColumn, alerts, pc, auroraData, listed, idx,
                    notificationsSent, lastLog, evaluated, scheduler, lastOp >>
    /\ UNCHANGED libVars

\* Mutant: the history table has no ON DELETE CASCADE
CascadeHistory_Keeps(history, id) == history

\* aurora_history.alert_id REFERENCES alerts(id) ON DELETE CASCADE (database.js:58)
CascadeHistory(history, id) == SelectSeq(history, LAMBDA r : r.alert_id # id)

\* Mutant: the delete empties the notification state table
CascadeState_All(state, id) == {}

\* alert_notification_state.alert_id REFERENCES alerts(id) ON DELETE CASCADE
\* (database.js:48)
CascadeState(state, id) == { r \in state : r.alert_id # id }

\* DELETE /api/alerts/:id by user userId (part_003:249-268): 404 when the user has
\* no such alert, else the alert is deleted and its rows with it.
DeleteAlert ==
    /\ scheduler = "running"
    /\ EventLoopFree
    /\ \E id \in AlertIds, userId \in UserIds :
          LET alert == { a \in alerts : a.id = id /\ a.user_id = userId }
              removed == (Cardinality(alert_notification_state)
                            - Cardinality(CascadeState(alert_notification_state, id)))
                         + (Len(aurora_history) - Len(CascadeHistory(aurora_history, id)))
          IN  IF alert = {}
              THEN UNCHANGED << alerts, alert_notification_state, aurora_history, lastOp >>
              ELSE /\ alerts' = alerts \ alert
                   /\ alert_notification_state' = CascadeState(alert_notification_state, id)
                   /\ aurora_history' = CascadeHistory(aurora_history, id)
                   /\ lastOp' = [op |-> "delete", id |-> id, value |-> userId, at |-> now,
                                  ok |-> TRUE, n |-> removed,
                                  inFlight |-> InFlight(pc) \/ InFlight(other.pc)]
    /\ UNCHANGED << now, hasIncrementColumn, outbox, pc, auroraData, listed, idx,
                    notificationsSent, lastLog, evaluated, other, scheduler >>
    /\ UNCHANGED libVars

\* The clock advances while the process runs
AppTick ==
    /\ scheduler = "running"
    /\ now < AppStart + (MaxTime - TwelveHours)
    /\ now' = now + 1
    /\ UNCHANGED << hasIncrementColumn, alerts, alert_notification_state, aurora_history,
                    outbox, pc, auroraData, listed, idx, notificationsSent, lastLog,
                    evaluated, other, scheduler, lastOp >>
    /\ UNCHANGED libVars

\* The scheduler and the runs it starts
AppNext ==
    \/ StartScheduler
    \/ CronAlertCheck
    \/ CronCleanup
    \/ AppFetchReturns
    \/ AppProcessAlert
    \/ OtherFetchReturns
    \/ OtherProcessAlert
    \/ AppTick

AppSpec == AppInit /\ [][AppNext]_vars

\* The scheduler, the runs it starts and the deletion of alerts
KeepNext == AppNext \/ DeleteAlert

KeepSpec == AppInit /\ [][KeepNext]_vars

\* The alerts API beside the evaluation runs: a database with the current schema
\* and two alerts of threshold 15
CrudInit ==
    /\ Init
    /\ hasIncrementColumn
    /\ \A a \in alerts : a.threshold = 15

\* The fetch of the run settles
CrudFetchReturns == FetchReturns /\ auroraData' \in AppFeed

CrudNext == StartCheck \/ CrudFetchReturns \/ ProcessAlert \/ DeleteAlert \/ Tick

CrudSpec == CrudInit /\ [][CrudNext]_vars

----------------------------------------------------------------------------
(* PUT /api/alerts/:id beside the evaluation runs *)

\* The threshold and increment_threshold of a request body; Undefined: not given
BodyThresholds == {Undefined, 30, 101}
BodyIncrements == {Undefined, 15, 51}

\* The validation of part_003:191-205
ValidThreshold(x) == x >= 1 /\ x <= 100
ValidIncrementThreshold(x) == x >= 1 /\ x <= 50

\* The status of PUT /api/alerts/:id for a body with these two fields
UpdateStatus(existing, threshold, increment) ==
    IF existing = {} THEN 404
    ELSE IF threshold # Undefined /\ ~ValidThreshold(threshold) THEN 400
    ELSE IF increment # Undefined /\ ~ValidIncrementThreshold(increment) THEN 400
    ELSE IF threshold = Undefined /\ increment = Undefined THEN 400
    ELSE 200

\* The row after UPDATE alerts SET ... of part_003:215-219
UpdatedRow(a, threshold, increment) ==
    [a EXCEPT !.threshold = IF threshold = Undefined THEN @ ELSE threshold,
              !.increment_threshold = IF increment = Undefined THEN @ ELSE increment]

\* PUT /api/alerts/:id by user userId (part_003:159-243): 404 or 400 leave the
\* table as it is, else the given fields of the alert are overwritten.
UpdateAlert ==
    /\ scheduler = "running"
    /\ EventLoopFree
    /\ \E id \in AlertIds, userId \in UserIds, threshold \in BodyThresholds,
          increment \in BodyIncrements :
          LET existing == { a \in alerts : a.id = id /\ a.user_id = userId }
          IN  IF UpdateStatus(existing, threshold, increment) # 200
              THEN UNCHANGED alerts
              ELSE alerts' = (alerts \ existing) \cup
                                { UpdatedRow(a, threshold, increment) : a \in existing }
    /\ UNCHANGED << now, hasIncrementColumn, alert_notification_state, aurora_history, outbox,
                    pc, auroraData, listed, idx, notificationsSent, lastLog, evaluated,
                    other, scheduler, lastOp >>
    /\ UNCHANGED libVars

\* A database with the current schema, two alerts of threshold 15 and increment
\* threshold 10, both notified 11 hours ago or neither ever
EditInit ==
    /\ Init
    /\ hasIncrementColumn
    /\ \A a \in alerts : a.threshold = 15
    /\ alert_notification_state \in
          { {}, { [alert_id |-> id, last_notified_value |-> 20, last_notified_at |-> 1] :
                    id \in AlertIds } }

EditNext == StartCheck \/ CrudFetchReturns \/ ProcessAlert \/ UpdateAlert \/ Tick

EditSpec == EditInit /\ [][EditNext]_vars

----------------------------------------------------------------------------
(* The alerts API: POST /api/alerts, PUT and DELETE /api/alerts/:id *)

MaxAlertId == 2     \* POST is answered while sqlite_sequence is below this

\* A value of a field of req.body. A number is value + fraction / 10 with
\* 0 <= fraction < 10; the other types carry no value.
Json(type, value, fraction) == [type |-> type, value |-> value, fraction |-> fraction]
JsonUndefined == Json("undefined", 0, 0)

\* x < n and x > n for a number x and a whole n
LessThan(x, n) == x.value < n
GreaterThan(x, n) == x.value > n \/ (x.value = n /\ x.fraction > 0)

\* Number.isInteger
isInteger(x) == x.type = "number" /\ x.fraction = 0

\* The fields of the bodies sent: absent, accepted, out of range, not whole, not a number
JsonLatitudes == { JsonUndefined, Json("number", 45, 0), Json("number", 91, 0) }
JsonLongitudes == { JsonUndefined, Json("number", 90, 0), Json("number", 0 - 181, 0) }
JsonThresholds == { JsonUndefined, Json("number", 30, 0), Json("number", 30, 5), Json("number", 101, 0) }
JsonIncrements == { JsonUndefined, Json("number", 15, 0), Json("null", 0, 0) }

\* The tests of part_003:110, 114 (POST) and 176, 184 (PUT)
InvalidLatitude(latitude) ==
    latitude.type # "number" \/ LessThan(latitude, 0 - 90) \/ GreaterThan(latitude, 90)
InvalidLongitude(longitude) ==
    longitude.type # "number" \/ LessThan(longitude, 0 - 180) \/ GreaterThan(longitude, 180)

\* Mutant: only the type of the threshold is tested
InvalidThreshold_TypeOnly(threshold) == threshold.type # "number"

\* The test of part_003:118 (POST) and 192 (PUT)
InvalidThreshold(threshold) == threshold.type # "number" \/ LessThan(threshold, 1) \/ GreaterThan(threshold, 100) \/ ~isInteger(threshold)

\* The test of part_003:200 (PUT), whose negation is the test of line 123 (POST)
InvalidIncrement(increment_threshold) ==
    \/ increment_threshold.type # "number"
    \/ LessThan(increment_threshold, 1)
    \/ GreaterThan(increment_threshold, 50)
    \/ ~isInteger(increment_threshold)

\* The value bound to a column for a number of the body; the numbers that pass
\* the tests in the bodies sent here are whole
Bound(x) == x.value

\* const incrementThreshold of part_003:122-126: 10 when the field is absent or
\* not acceptable
incrementThreshold(increment_threshold) ==
    IF increment_threshold.type # "undefined"
    THEN (IF ~InvalidIncrement(increment_threshold) THEN Bound(increment_threshold) ELSE 10)
    ELSE 10

\* The status of POST /api/alerts
PostStatus(latitude, longitude, threshold) ==
    IF InvalidLatitude(latitude) THEN 400
    ELSE IF InvalidLongitude(longitude) THEN 400
    ELSE IF InvalidThreshold(threshold) THEN 400
    ELSE 201

\* POST /api/alerts by user userId (part_003:105-152): a body that fails a test
\* is answered 400 before any statement runs, else one row is inserted under the
\* next id of AUTOINCREMENT
RouterPost ==
    /\ sqlite_sequence < MaxAlertId
    /\ \E userId \in UserIds, latitude \in JsonLatitudes, longitude \in JsonLongitudes,
          threshold \in JsonThresholds, increment_threshold \in JsonIncrements :
          \E status \in { PostStatus(latitude, longitude, threshold) } :
              /\ IF status = 201
                 THEN /\ alerts' = alerts \cup
                            { [id |-> sqlite_sequence + 1, user_id |-> userId,
                               latitude |-> Bound(latitude), longitude |-> Bound(longitude),
                               threshold |-> Bound(threshold),
                               increment_threshold |->
                                   incrementThreshold(increment_threshold)] }
                      /\ sqlite_sequence' = sqlite_sequence + 1
                 ELSE UNCHANGED << alerts, sqlite_sequence >>
              /\ call' = [fn |-> "POST",
                           args |-> << IF status = 201 THEN sqlite_sequence + 1 ELSE NULL,
                                       userId >>,
                           returned |-> TRUE, result |-> << status >>]
    /\ UNCHANGED << now, hasIncrementColumn, alert_notification_state, aurora_history, outbox,
                    pc, auroraData, listed, idx, notificationsSent, lastLog, evaluated,
                    other, scheduler, lastOp, cityCache, geoCalls, lookups, thresholdMax,
                    alerts_new, lastInit >>

\* Mutant: the owner is not part of the WHERE clause
Existing_AnyOwner(rows, id, userId) == { a \in rows : a.id = id }

\* The rows of WHERE id = ? AND user_id = ? (part_003:165, 218 and 254, 261)
Existing(rows, id, userId) == { a \in rows : a.id = id /\ a.user_id = userId }

\* The status of PUT /api/alerts/:id (part_003:165-209): the fields are tested in
\* this order, each only when the body has it
PutStatus(existing, latitude, longitude, threshold, increment_threshold) ==
    IF existing = {} THEN 404
    ELSE IF latitude.type # "undefined" /\ InvalidLatitude(latitude) THEN 400
    ELSE IF longitude.type # "undefined" /\ InvalidLongitude(longitude) THEN 400
    ELSE IF threshold.type # "undefined" /\ InvalidThreshold(threshold) THEN 400
    ELSE IF increment_threshold.type # "undefined" /\ InvalidIncrement(increment_threshold)
         THEN 400
    ELSE IF /\ latitude.type = "undefined" /\ longitude.type = "undefined"
            /\ threshold.type = "undefined" /\ increment_threshold.type = "undefined"
         THEN 400
    ELSE 200

\* The row after UPDATE alerts SET ... (part_003:215-219) with the fields the body has
SetFields(a, latitude, longitude, threshold, increment_threshold) ==
    [a EXCEPT !.latitude = IF latitude.type = "undefined" THEN @ ELSE Bound(latitude),
              !.longitude = IF longitude.type = "undefined" THEN @ ELSE Bound(longitude),
              !.threshold = IF threshold.type = "undefined" THEN @ ELSE Bound(threshold),
              !.increment_threshold = IF increment_threshold.type = "undefined" THEN @
                                      ELSE Bound(increment_threshold)]

\* PUT /api/alerts/:id by user userId (part_003:159-243): the UPDATE runs only
\* after every field of the body has passed its test
RouterPut ==
    /\ \E id \in 1 .. MaxAlertId, userId \in UserIds, latitude \in JsonLatitudes,
          longitude \in JsonLongitudes, threshold \in JsonThresholds,
          increment_threshold \in JsonIncrements :
          \E status \in { PutStatus(Existing(alerts, id, userId), latitude, longitude,
                                    threshold, increment_threshold) } :
              /\ IF status = 200
                 THEN alerts' = (alerts \ Existing(alerts, id, userId)) \cup
                                   { SetFields(a, latitude, longitude, threshold,
                                               increment_threshold) :
                                       a \in Existing(alerts, id, userId) }
                 ELSE UNCHANGED alerts
              /\ call' = [fn |-> "PUT", args |-> << id, userId >>,
                           returned |-> TRUE, result |-> << status >>]
    /\ UNCHANGED << now, hasIncrementColumn, alert_notification_state, aurora_history, outbox,
                    pc, auroraData, listed, idx, notificationsSent, lastLog, evaluated,
                    other, scheduler, lastOp, cityCache, geoCalls, lookups, thresholdMax,
                    alerts_new, lastInit, sqlite_sequence >>

\* DELETE /api/alerts/:id by user userId (part_003:249-268) and its response: the
\* rows that reference the alert go with it
RouterDelete ==
    /\ \E id \in 1 .. MaxAlertId, userId \in UserIds :
          IF Existing(alerts, id, userId) = {}
          THEN /\ call' = [fn |-> "DELETE", args |-> << id, userId >>,
                           returned |-> TRUE, result |-> << 404 >>]
               /\ UNCHANGED << alerts, alert_notification_state, aurora_history >>
          ELSE /\ alerts' = alerts \ Existing(alerts, id, userId)
               /\ alert_notification_state' = CascadeState(alert_notification_state, id)
               /\ aurora_history' = CascadeHistory(aurora_history, id)
               /\ call' = [fn |-> "DELETE", args |-> << id, userId >>,
                           returned |-> TRUE, result |-> << 200 >>]
    /\ UNCHANGED << now, hasIncrementColumn, outbox, pc, auroraData, listed, idx,
                    notificationsSent, lastLog, evaluated, other, scheduler, lastOp,
                    cityCache, geoCalls, lookups, thresholdMax, alerts_new, lastInit,
                    sqlite_sequence >>

\* A database with the current schema and one alert of user 1, notified and with
\* one history row; no check runs
ApiInit ==
    /\ now = AppStart
    /\ hasIncrementColumn = TRUE
    /\ alerts = { AlertRow(1, 15, 10) }
    /\ alert_notification_state =
          { [alert_id |-> 1, last_notified_value |-> 20, last_notified_at |-> 1] }
    /\ aurora_history = << OldRecord(1, 1) >>
    /\ outbox = <<>>
    /\ pc = "idle"
    /\ auroraData = NotFetched
    /\ listed = <<>>
    /\ idx = 1
    /\ notificationsSent = 0
    /\ lastLog = "none"
    /\ evaluated = [id \in AlertIds |-> NotEvaluated]
    /\ other = IdleRun
    /\ scheduler = "off"
    /\ lastOp = NoOp
    /\ call = NoCall
    /\ cityCache = EmptyCache /\ geoCalls = NoGeoCalls /\ lookups = NoLookups
    /\ thresholdMax = 100 /\ alerts_new = NoTable /\ lastInit = NoInit
    /\ sqlite_sequence = 1

ApiNext == RouterPost \/ RouterPut \/ RouterDelete

ApiSpec == ApiInit /\ [][ApiNext]_vars

----------------------------------------------------------------------------
(* The process starts on a database file left by an earlier version *)

\* Rows of the alerts table of a database file: thresholds that every schema
\* accepts; the column increment_threshold, when there is one, holds 15, or NULL
\* in a row of a table that has the old CHECK and no NOT NULL on the column
OldAlertRow(id, hasColumn, max) ==
    [id |-> id, user_id |-> 1, latitude |-> AlertLatitude(id), longitude |-> AlertLongitude(id),
     threshold |-> 5 + id,
     increment_threshold |-> IF hasColumn /\ (id = 1 \/ max = 100) THEN 15 ELSE NULL]

\* The database file as the variables hold it
TheDatabase ==
    [alertsExists |-> TRUE, alerts |-> alerts, hasIncrementColumn |-> hasIncrementColumn,
     thresholdMax |-> thresholdMax, alerts_new |-> alerts_new, foreign_keys |-> TRUE,
     state |-> alert_notification_state, history |-> aurora_history,
     seq |-> sqlite_sequence]

\* A database file written by an earlier version (threshold up to 9, with or
\* without the increment_threshold column) or by this one, with some alerts, state
\* rows and history rows, and possibly an alerts_new table left by a failed migration
MigrateInit ==
    /\ now = TwelveHours
    /\ hasIncrementColumn \in BOOLEAN
    /\ thresholdMax \in {9, 100}
    /\ \E ids \in SUBSET AlertIds :
          /\ alerts = { OldAlertRow(id, hasIncrementColumn, thresholdMax) : id \in ids }
          /\ \E notified \in SUBSET ids :
                alert_notification_state =
                    { [alert_id |-> id, last_notified_value |-> 20, last_notified_at |-> 1] :
                        id \in notified }
          /\ \E recorded \in SUBSET ids :
                aurora_history \in
                    { SelectSeq(<< OldRecord(1, 0), OldRecord(2, 1) >>,
                                LAMBDA r : r.alert_id \in recorded) }
    /\ alerts_new \in { NoTable, EmptyTable, [exists |-> TRUE, rows |-> alerts] }
    /\ outbox = <<>>
    /\ pc = "idle"
    /\ auroraData = NotFetched
    /\ listed = <<>>
    /\ idx = 1
    /\ notificationsSent = 0
    /\ lastLog = "none"
    /\ evaluated = [id \in AlertIds |-> NotEvaluated]
    /\ other = IdleRun
    /\ scheduler = "off"
    /\ lastOp = NoOp
    /\ call = NoCall
    /\ cityCache = EmptyCache /\ geoCalls = NoGeoCalls /\ lookups = NoLookups
    /\ lastInit = NoInit
    /\ sqlite_sequence = 2

\* The process starts and database.js runs: the migration, if the schema asks for
\* it, with any one of its statements throwing, then CREATE TABLE IF NOT EXISTS.
\* The process is started again later.
Startup ==
    /\ lastInit.n < MaxStartups
    /\ \E failAt \in FailurePoints, dropLeftoverOk \in BOOLEAN, recoveryOk \in BOOLEAN :
          \E d \in { initDatabase(TheDatabase, failAt, dropLeftoverOk, recoveryOk) } :
              /\ alerts' = d.alerts
              /\ hasIncrementColumn' = d.hasIncrementColumn
              /\ thresholdMax' = d.thresholdMax
              /\ alerts_new' = d.alerts_new
              /\ alert_notification_state' = d.state
              /\ aurora_history' = d.history
              /\ sqlite_sequence' = d.seq
              /\ lastInit' =
                    [n |-> lastInit.n + 1,
                     ran |-> needsMigration(TheDatabase),
                     failedAt |-> IF needsMigration(TheDatabase)
                                  THEN FailedStep(TheDatabase, failAt, dropLeftoverOk)
                                  ELSE "none",
                     recovery |-> IF needsMigration(TheDatabase)
                                        /\ FailedStep(TheDatabase, failAt, dropLeftoverOk) # "none"
                                  THEN RecoveryOf(ThrownAt(TheDatabase, failAt, dropLeftoverOk),
                                                  recoveryOk)
                                  ELSE "none",
                     foreign_keys |-> d.foreign_keys,
                     before |-> alerts,
                     stateBefore |-> alert_notification_state,
                     historyBefore |-> aurora_history]
    /\ UNCHANGED << now, outbox, pc, auroraData, listed, idx, notificationsSent, lastLog,
                    evaluated, other, scheduler, lastOp, call, cityCache, geoCalls, lookups >>

MigrateNext == Startup

MigrateSpec == MigrateInit /\ [][MigrateNext]_vars

\* The event loop runs the continuation of a run whose fetch has settled, so the
\* loop is weakly fair.  Nothing makes the feed answer: fetchAuroraData passes no
\* timeout and no abort signal to fetch (aurora.js:16), so FetchReturns is not fair.
FairSpec == Init /\ [][Next]_vars /\ WF_vars(ProcessAlert)

----------------------------------------------------------------------------
(* Properties *)

ListedIndexes == 1 .. Len(listed)

\* checkSingleAlert was called for the alert of row a in this run
Checked(a) == evaluated[a.id].done /\ evaluated[a.id].outcome # "historyError"

HasValue(a) == evaluated[a.id].value # Undefined

NeverNotified(a) == a.last_notified_value = NULL

\* now - lastNotifiedAt at the time the alert of row a was evaluated
Elapsed(a) == evaluated[a.id].at - a.last_notified_at

\* currentValue - lastNotifiedValue
Increase(a) == evaluated[a.id].value - a.last_notified_value

\* The outcome was Suppress: checkSingleAlert returned false without throwing,
\* called no dispatch and wrote no notification state.
Suppressed(a) ==
    /\ ~evaluated[a.id].threw
    /\ ~evaluated[a.id].dispatched
    /\ ~evaluated[a.id].wrote

\* C1: an alert whose nearest sample is below its threshold is suppressed, whatever
\* its prior notification state: nothing is dispatched and no state is written.
C1_BelowThresholdSuppressed ==
    \A i \in ListedIndexes :
        LET a == listed[i]
        IN  (Checked(a) /\ HasValue(a) /\ evaluated[a.id].value < a.threshold)
                => Suppressed(a)

\* Two alerts evaluated below their thresholds in one run, one never notified and one
\* notified more than 12 hours before.
C1_Witness ==
    \E i, j \in ListedIndexes :
        LET a == listed[i]
            b == listed[j]
        IN  /\ Checked(a) /\ HasValue(a) /\ evaluated[a.id].value < a.threshold
            /\ NeverNotified(a)
            /\ Checked(b) /\ HasValue(b) /\ evaluated[b.id].value < b.threshold
            /\ ~NeverNotified(b) /\ Elapsed(b) > TwelveHours

\* C2: a never-notified alert whose value reaches its threshold is notified:
\* sendAuroraAlert is called for it.
C2_FirstQualifyingNotifies ==
    \A i \in ListedIndexes :
        LET a == listed[i]
        IN  (Checked(a) /\ HasValue(a) /\ NeverNotified(a)
                /\ evaluated[a.id].value >= a.threshold)
                => evaluated[a.id].dispatched

\* C3: an alert notified 12 hours ago or more whose value reaches its threshold is
\* notified, whatever the increase.
C3_ExpiredNotifies ==
    \A i \in ListedIndexes :
        LET a == listed[i]
        IN  (Checked(a) /\ HasValue(a) /\ ~NeverNotified(a) /\ Elapsed(a) >= TwelveHours
                /\ evaluated[a.id].value >= a.threshold)
                => evaluated[a.id].dispatched

C5_RecentLargeIncreaseNotifies ==
    \A i \in ListedIndexes :
        LET a == listed[i]
        IN  (Checked(a) /\ HasValue(a) /\ ~NeverNotified(a) /\ Elapsed(a) < TwelveHours
                /\ Increase(a) >= a.increment_threshold
                /\ evaluated[a.id].value >= a.threshold)
                => evaluated[a.id].dispatched

\* The notification state of the alert of row a is (value, time of its evaluation)
StateIs(a, value) ==
    [alert_id |-> a.id, last_notified_value |-> value,
     last_notified_at |-> evaluated[a.id].at] \in alert_notification_state

\* C6: the scenario threshold 15, increment threshold 10: value 20 with no prior
\* state notifies and leaves state (20, t1); 25 two hours after t1 is suppressed
\* and leaves the state; 32 three hours after t1 notifies and leaves (32, t3);
\* 18 thirteen hours after t3 notifies.
C6_Scenario ==
    \A i \in ListedIndexes :
        LET a == listed[i]
            e == evaluated[a.id]
        IN  (Checked(a) /\ a.threshold = 15 /\ a.increment_threshold = 10) =>
              /\ (NeverNotified(a) /\ e.value = 20) => (e.dispatched /\ StateIs(a, 20))
              /\ (a.last_notified_value = 20 /\ Elapsed(a) = 2 /\ e.value = 25)
                    => Suppressed(a)
              /\ (a.last_notified_value = 20 /\ Elapsed(a) = 3 /\ e.value = 32)
                    => (e.dispatched /\ StateIs(a, 32))
              /\ (a.last_notified_value = 32 /\ Elapsed(a) = 13 /\ e.value = 18)
                    => e.dispatched

\* The notification state of the alert of row a is what the listing query read
StateAsListed(a) ==
    IF NeverNotified(a)
    THEN \A r \in alert_notification_state : r.alert_id # a.id
    ELSE { r \in alert_notification_state : r.alert_id = a.id }
            = { [alert_id |-> a.id, last_notified_value |-> a.last_notified_value,
                 last_notified_at |-> a.last_notified_at] }

\* C7: no notification state is written for an alert in a run that decided to
\* suppress it (checkSingleAlert returned false before the dispatch).
C7_NoStateWriteOnSuppress ==
    \A i \in ListedIndexes :
        LET a == listed[i]
        IN  evaluated[a.id].outcome \in {"noData", "belowThreshold", "skipped"}
                => (~evaluated[a.id].wrote /\ StateAsListed(a))

\* A run that suppressed a notified alert by the deduplication test, after appending
\* its history row, and suppressed a never-notified alert below its threshold.
C7_Witness ==
    \E i, j \in ListedIndexes :
        /\ evaluated[listed[i].id].outcome = "skipped"
        /\ evaluated[listed[i].id].appended
        /\ evaluated[listed[j].id].outcome = "belowThreshold"
        /\ NeverNotified(listed[j])

\* fetchAuroraData failed, or its document has no or an empty coordinates field
FetchFailedOrEmpty(data) ==
    \/ data.kind = "error"
    \/ data.kind = "document" /\ (~data.hasCoordinates \/ Len(data.coordinates) = 0)

\* C9: when the fetch fails or gives no samples, the run ends without listing or
\* evaluating any alert: no history row is appended, nothing is dispatched and no
\* notification state is written.
C9_FetchFailureAborts ==
    /\ [](FetchFailedOrEmpty(auroraData) =>
            /\ pc = "done"
            /\ listed = <<>>
            /\ notificationsSent = 0
            /\ \A id \in AlertIds : ~evaluated[id].done)
    /\ [][FetchFailedOrEmpty(auroraData') =>
            /\ aurora_history' = aurora_history
            /\ outbox' = outbox
            /\ alert_notification_state' = alert_notification_state]_vars

\* A run over a database with alerts that ended on a document whose coordinates
\* collection is empty.
C9_Witness ==
    /\ pc = "done"
    /\ hasIncrementColumn
    /\ alerts # {}
    /\ auroraData.kind = "document" /\ auroraData.hasCoordinates
    /\ Len(auroraData.coordinates) = 0
    /\ lastLog = "No coordinates in aurora data"

\* C10: a failure while processing one alert does not end the run: when the run is
\* over every listed alert has been processed, and each alert whose own processing
\* did not fail has its history row appended and its decision taken.
C10_FailureIsolated ==
    (pc = "done" /\ Len(listed) > 0) =>
        \A i \in ListedIndexes :
            LET a == listed[i]
            IN  /\ evaluated[a.id].done
                /\ (Checked(a) /\ HasValue(a)) => evaluated[a.id].appended

\* A finished run in which the history insert of the first alert threw and the
\* second alert had its history row appended and was evaluated without error.
C10_Witness ==
    /\ pc = "done"
    /\ Len(listed) = 2
    /\ evaluated[listed[1].id].outcome = "historyError"
    /\ evaluated[listed[1].id].threw
    /\ evaluated[listed[2].id].appended
    /\ Checked(listed[2])
    /\ ~evaluated[listed[2].id].threw

\* C11: a run whose fetch returned at least one sample processes the alerts of the
\* database: it does not end with no alert processed, whatever else fails.
C11_OnlyFetchFailureAborts ==
    (/\ pc = "done"
     /\ auroraData.kind = "document"
     /\ Len(CoordinatesOf(auroraData)) >= 1
     /\ alerts # {})
        => \E id \in AlertIds : evaluated[id].done

\* The history row that the evaluation of the alert of row a appends
HistoryRecordOf(a) ==
    [alert_id |-> a.id, aurora_value |-> evaluated[a.id].value,
     recorded_at |-> evaluated[a.id].at]

\* C12: each iteration of the loop whose alert has a nearest value, and whose INSERT
\* the database accepts, appends exactly one history row (alert id, value, time of
\* the evaluation) and no other; this whether checkSingleAlert skips the alert,
\* returns or throws.  An iteration whose alert has no value appends nothing.
C12_OneHistoryRecordPerAlert ==
    /\ [](\A i \in ListedIndexes :
            LET a == listed[i]
            IN  (Checked(a) /\ HasValue(a))
                    => /\ evaluated[a.id].appended
                       /\ \E k \in 1 .. Len(aurora_history) :
                              aurora_history[k] = HistoryRecordOf(a))
    /\ [][(pc = "loop" /\ idx' = idx + 1) =>
            LET a == listed[idx]
                e == evaluated'[a.id]
            IN  IF e.value # Undefined /\ e.outcome # "historyError"
                THEN aurora_history' =
                        Append(aurora_history, [alert_id |-> a.id, aurora_value |-> e.value,
                                                recorded_at |-> now])
                ELSE aurora_history' = aurora_history]_vars

\* A finished run that appended one row for an alert it skipped and one row for an
\* alert whose evaluation went past the deduplication test and threw.
C12_Witness ==
    /\ pc = "done"
    /\ Len(listed) = 2
    /\ Len(aurora_history) = 2
    /\ aurora_history[1] = HistoryRecordOf(listed[1])
    /\ aurora_history[2] = HistoryRecordOf(listed[2])
    /\ evaluated[listed[1].id].outcome \in {"belowThreshold", "skipped"}
    /\ evaluated[listed[2].id].outcome = "ReferenceError"

\* C16: no failure is fatal to checkAllAlerts: a run never ends by rejecting, a run
\* in which something failed is a finished run, and after a finished run the next
\* one can start.
C16_NoFailureIsFatal ==
    /\ pc \in {"idle", "fetching", "loop", "done"}
    /\ lastLog = "Error during alert check" => pc = "done"
    /\ (pc = "done" /\ Len(aurora_history) + Cardinality(alerts) <= MaxHistory)
            => ENABLED StartCheck

\* A run whose fetch returned samples and whose listing query threw: the catch of
\* checkAllAlerts logged the error and the run is finished.
C16_Witness ==
    /\ pc = "done"
    /\ auroraData.kind = "document"
    /\ Len(CoordinatesOf(auroraData)) >= 1
    /\ ~hasIncrementColumn
    /\ lastLog = "Error during alert check"

\* C15: every run that has started finishes, also when the feed never answers.
C15_EveryRunFinishes == (pc = "fetching") ~> (pc = "done")

\* The rows of the notification state table for alert id
StateRowsOf(state, id) == { r \in state : r.alert_id = id }

\* A table without its timestamps
WithoutTimes(state) ==
    { [alert_id |-> r.alert_id, last_notified_value |-> r.last_notified_value] : r \in state }

\* C19: updateNotificationState is an upsert.  After a call the alert has exactly one
\* row, with the value of the call and the time of the call, whether it had a row
\* or not, and the rows of other alerts are as they were; a second call with the
\* same value leaves the table that one call leaves, timestamps apart.
C19_UpsertOverwrites ==
    /\ [][(lastOp' # lastOp /\ lastOp'.op = "upsert") =>
            /\ StateRowsOf(alert_notification_state', lastOp'.id) =
                  {[alert_id |-> lastOp'.id, last_notified_value |-> lastOp'.value,
                    last_notified_at |-> now]}
            /\ \A id \in AlertIds \ {lastOp'.id} :
                  StateRowsOf(alert_notification_state', id) =
                  StateRowsOf(alert_notification_state, id)]_vars
    /\ [](\A id \in AlertIds, v \in AuroraValues :
            LET once == updateNotificationState(alert_notification_state, id, v, now)
                twice == updateNotificationState(once, id, v, now + 1)
            IN  /\ WithoutTimes(twice) = WithoutTimes(once)
                /\ Cardinality(twice) = Cardinality(once)
                /\ StateRowsOf(twice, id) =
                     {[alert_id |-> id, last_notified_value |-> v,
                       last_notified_at |-> now + 1]})

\* A call that overwrote the row of an alert notified before with value 20: the
\* alert's one row now holds 32 and the time of the call.
C19_Witness ==
    /\ lastOp.op = "upsert"
    /\ lastOp.n = 1
    /\ lastOp.value = 32
    /\ lastOp.at = MaxTime
    /\ StateRowsOf(alert_notification_state, lastOp.id) =
          {[alert_id |-> lastOp.id, last_notified_value |-> 32, last_notified_at |-> MaxTime]}
    /\ \E id \in AlertIds \ {lastOp.id} :
          \E r \in alert_notification_state : r.alert_id = id /\ r.last_notified_at >= TwelveHours

\* C13: a run of cleanupOldHistory at time T deletes the rows recorded before
\* T - 24h and no other: the rows recorded at T - 24h or later stay, unchanged and
\* in their order, and after it no row is older than 24 hours before T.
C13_PruneKeepsLastDay ==
    /\ [][(lastOp' # lastOp /\ lastOp'.op = "cleanup" /\ lastOp'.ok) =>
            aurora_history' =
                SelectSeq(aurora_history,
                          LAMBDA r : r.recorded_at >= now - TwentyFourHours)]_vars
    /\ []((lastOp.op = "cleanup" /\ lastOp.ok) =>
            \A k \in 1 .. Len(aurora_history) :
                aurora_history[k].recorded_at >= lastOp.at - TwentyFourHours)

\* A prune that deleted the two rows recorded 25 hours before and kept the two
\* rows recorded exactly 24 hours before.
C13_Witness ==
    /\ lastOp.op = "cleanup"
    /\ lastOp.ok
    /\ lastOp.n = 2
    /\ Len(aurora_history) = 2
    /\ \A k \in 1 .. 2 : aurora_history[k].recorded_at = lastOp.at - TwentyFourHours

\* C14: at most one run of checkAllAlerts is in progress at any time.
C14_OneRunAtATime == ~(InFlight(pc) /\ InFlight(other.pc))

\* C17: a prune whose DELETE throws leaves the process running, with its timers.
C17_PruneFailureContained ==
    (lastOp.op = "cleanup" /\ ~lastOp.ok) => scheduler = "running"

C20_NoOrphanRows ==
    /\ [](\A r \in alert_notification_state : \E a \in alerts : a.id = r.alert_id)
    /\ [](\A k \in 1 .. Len(aurora_history) :
            \E a \in alerts : a.id = aurora_history[k].alert_id)
    /\ [][(lastOp' # lastOp /\ lastOp'.op = "delete") =>
            /\ alert_notification_state' =
                  { r \in alert_notification_state : r.alert_id # lastOp'.id }
            /\ aurora_history' =
                  SelectSeq(aurora_history, LAMBDA r : r.alert_id # lastOp'.id)
            /\ \A a \in alerts' : a \in alerts /\ a.id # lastOp'.id]_vars

\* An alert with a state row was deleted while a run was awaiting the feed; the run
\* then listed and evaluated the other alert only and appended that alert's row.
C20_Witness ==
    /\ pc = "done"
    /\ lastOp.op = "delete"
    /\ lastOp.inFlight
    /\ lastOp.n >= 1
    /\ Len(listed) = 1
    /\ listed[1].id # lastOp.id
    /\ ~evaluated[lastOp.id].done
    /\ evaluated[listed[1].id].appended
    /\ Len(aurora_history) = 1

\* The distance of element k of array S to the target of the call
DistanceTo(S, k) == haversineDistance(call.args[2], call.args[3], S[k][2], S[k][1])

StoredAlert(id) == CHOOSE a \in alerts : a.id = id

\* C21: every run reads the thresholds and increment thresholds from the table when
\* it lists the alerts, so the rows a run iterates over carry the stored values, and
\* each decision of the run is the one the values stored at that time give: an edit
\* committed before the listing query is used by that run.
C21_EditsReachNextCycle ==
    /\ [](pc = "loop" =>
            \A i \in ListedIndexes :
                /\ listed[i].threshold = StoredAlert(listed[i].id).threshold
                /\ listed[i].increment_threshold =
                        StoredAlert(listed[i].id).increment_threshold)
    /\ [][\A id \in AlertIds :
            (/\ ~evaluated[id].done /\ evaluated'[id].done
             /\ evaluated'[id].outcome # "historyError"
             /\ evaluated'[id].value # Undefined) =>
                LET s == StoredAlert(id)
                    row == listed[idx]
                    e == evaluated'[id]
                IN  /\ (e.outcome = "belowThreshold") <=> (e.value < s.threshold)
                    /\ (e.outcome = "skipped") <=>
                          /\ e.value >= s.threshold
                          /\ row.last_notified_value # NULL
                          /\ e.at - row.last_notified_at <= TwelveHours
                          /\ e.value - row.last_notified_value < s.increment_threshold]_vars

\* A run that decided with edited values: an alert created with threshold 15 was
\* evaluated below its threshold at value 20, or one created with increment
\* threshold 10 was skipped for an increase of 12.
C21_Witness ==
    \E i \in ListedIndexes :
        LET a == listed[i]
        IN  /\ Checked(a) /\ HasValue(a)
            /\ \/ /\ a.threshold = 30 /\ evaluated[a.id].value = 20
                   /\ evaluated[a.id].outcome = "belowThreshold"
               \/ /\ a.increment_threshold = 15 /\ Increase(a) = 12
                   /\ ~NeverNotified(a)
                   /\ evaluated[a.id].outcome = "skipped"

\* C27: an alert whose value reaches its threshold and that was never notified, or
\* was last notified more than 12 hours before, or whose value is above the last
\* notified value (by any amount) gets its email and its state (value, now).
C27_AnyIncreaseNotifies ==
    \A i \in ListedIndexes :
        LET a == listed[i]
        IN  (/\ Checked(a) /\ HasValue(a)
             /\ evaluated[a.id].value >= a.threshold
             /\ \/ NeverNotified(a)
                \/ Elapsed(a) > TwelveHours
                \/ Increase(a) > 0)
                => (evaluated[a.id].dispatched /\ StateIs(a, evaluated[a.id].value))

\* C29: a failed history insert does not change whether the alert is evaluated in
\* the same run: checkSingleAlert is called for every alert the loop has passed.
C29_HistoryFailureIndependent ==
    \A i \in ListedIndexes :
        evaluated[listed[i].id].done => Checked(listed[i])

\* C25: once startScheduler has been called, both jobs keep ticking whatever the
\* runs of the other job do: whenever the event loop is free the hourly prune can
\* fire, and the five-minute evaluation can fire (while the model has a free run
\* slot and room in the history).
C25_JobsIndependent ==
    (scheduler # "off" /\ EventLoopFree) =>
        /\ ENABLED CronCleanup
        /\ (/\ FreshRows(aurora_history) + Cardinality(alerts) <= MaxHistory
            /\ (~InFlight(pc) \/ ~InFlight(other.pc)))
              => ENABLED CronAlertCheck

\* The history row a run appended for alert id, as its evaluation recorded it
AppendedRow(ev, id) ==
    [alert_id |-> id, recorded_at |-> ev[id].at, aurora_value |-> ev[id].value]

\* Every row the run with evaluations ev has appended is in the history
AppendedRowsKept(ev) ==
    \A id \in AlertIds :
        ev[id].appended =>
            \E k \in 1 .. Len(aurora_history) : aurora_history[k] = AppendedRow(ev, id)

\* C26: a prune that runs while a run of checkAllAlerts is in flight leaves that
\* run where it was and deletes no row recorded since the process started; a run
\* awaiting the feed (the only place a prune can meet a run) can take its answer as
\* soon as no loop occupies the event loop, and every row a run has appended is
\* still in the history, whatever prunes ran beside it.
C26_PruneBesideRun ==
    /\ [][(lastOp' # lastOp /\ lastOp'.op = "cleanup" /\ lastOp'.inFlight) =>
            /\ InFlight(pc) => (pc' = pc /\ evaluated' = evaluated /\ listed' = listed)
            /\ InFlight(other.pc) => other' = other
            /\ SelectSeq(aurora_history', LAMBDA r : r.recorded_at >= AppStart) =
                  SelectSeq(aurora_history, LAMBDA r : r.recorded_at >= AppStart)]_vars
    /\ [](AppendedRowsKept(evaluated) /\ AppendedRowsKept(other.evaluated))
    /\ [](scheduler = "running" =>
            /\ (pc = "fetching" /\ EventLoopFree) => ENABLED AppFetchReturns
            /\ (other.pc = "fetching" /\ EventLoopFree) => ENABLED OtherFetchReturns)

\* The hourly prune deleted old rows while a run was awaiting the feed, and the
\* only run that has appended rows is finished with its rows in the history.
C26_Witness ==
    /\ lastOp.op = "cleanup" /\ lastOp.ok /\ lastOp.inFlight /\ lastOp.n >= 1
    /\ lastOp.at > AppStart
    /\ pc = "done" /\ other.pc = "idle"
    /\ \E id \in AlertIds : evaluated[id].appended
    /\ AppendedRowsKept(evaluated)
    /\ FreshRows(aurora_history) = Cardinality({ id \in AlertIds : evaluated[id].appended })

\* C23: a notification state row is never removed while its alert exists: through
\* runs, prunes and the deletion of other alerts, an alert that has a row and is
\* still in the alerts table after the step still has a row.
C23_NotifiedStays ==
    [][\A id \in AlertIds :
          (/\ StateRowsOf(alert_notification_state, id) # {}
           /\ \E a \in alerts' : a.id = id)
              => StateRowsOf(alert_notification_state', id) # {}]_vars

\* The other alert was deleted, a prune removed the old history, a run evaluated
\* the remaining alert, and its notification state row is still there.
C23_Witness ==
    \E a \in alerts :
        /\ alerts = {a}
        /\ lastOp.op = "delete" /\ lastOp.id # a.id
        /\ \A k \in 1 .. Len(aurora_history) : aurora_history[k].recorded_at >= AppStart
        /\ pc = "done" /\ evaluated[a.id].done
        /\ StateRowsOf(alert_notification_state, a.id) # {}

\* C31: an alert for which the matcher gives no usable sample is skipped for the
\* run: checkSingleAlert returns false without throwing, no history row is
\* appended, nothing is dispatched, no state is written, and the loop goes on to
\* the next alert or ends normally.
C31_NoSampleSkipsAlert ==
    /\ [](\A i \in ListedIndexes :
            LET a == listed[i]
            IN  (evaluated[a.id].done /\ ~HasValue(a)) =>
                    /\ evaluated[a.id].outcome = "noData"
                    /\ ~evaluated[a.id].appended
                    /\ Suppressed(a))
    /\ [][\A id \in AlertIds :
            (~evaluated[id].done /\ evaluated'[id].done
                /\ evaluated'[id].value = Undefined) =>
                    /\ aurora_history' = aurora_history
                    /\ outbox' = outbox
                    /\ alert_notification_state' = alert_notification_state
                    /\ pc' = IF idx < Len(listed) THEN "loop" ELSE "done"
                    /\ idx' = idx + 1]_vars

\* The first alert's nearest sample had no value and was skipped; the run went on
\* and evaluated the second alert with a value.
C31_Witness ==
    /\ Len(listed) = 2
    /\ evaluated[listed[1].id].done /\ ~HasValue(listed[1])
    /\ evaluated[listed[1].id].outcome = "noData"
    /\ evaluated[listed[2].id].done /\ HasValue(listed[2])
    /\ evaluated[listed[2].id].appended

\* s is t with some of its rows left out: the rows that remain are unchanged and
\* in their order
RECURSIVE IsSubSeq(_, _)
IsSubSeq(s, t) ==
    IF Len(s) = 0 THEN TRUE
    ELSE IF Len(t) = 0 THEN FALSE
    ELSE IF Head(s) = Head(t) THEN IsSubSeq(Tail(s), Tail(t))
    ELSE IsSubSeq(s, Tail(t))

\* The rows of alert id, in the order of their insertion
HistoryOf(history, id) == SelectSeq(history, LAMBDA r : r.alert_id = id)

\* C32: the history of an alert is append-only and ordered by recorded_at: every
\* step either leaves the table, deletes rows (the remaining ones unchanged and in
\* order), or appends one row whose recorded_at is not earlier than that of any
\* stored row of the same alert; this also with two runs in flight at once.
C32_HistoryAppendOnlyOrdered ==
    /\ [][\/ IsSubSeq(aurora_history', aurora_history)
          \/ /\ Len(aurora_history') = Len(aurora_history) + 1
             /\ SubSeq(aurora_history', 1, Len(aurora_history)) = aurora_history
             /\ LET new == aurora_history'[Len(aurora_history')]
                    old == HistoryOf(aurora_history, new.alert_id)
                IN  \A k \in 1 .. Len(old) : old[k].recorded_at <= new.recorded_at]_vars
    /\ [](\A id \in AlertIds :
            LET h == HistoryOf(aurora_history, id)
            IN  \A j, k \in 1 .. Len(h) : j < k => h[j].recorded_at <= h[k].recorded_at)

\* Two runs that were in flight together have both appended a row for the same
\* alert, at different hours, and both rows are in the history.
C32_Witness ==
    /\ pc = "done" /\ other.pc = "done"
    /\ Cardinality(alerts) = 2
    /\ \E id \in AlertIds :
          /\ evaluated[id].appended /\ other.evaluated[id].appended
          /\ evaluated[id].at # other.evaluated[id].at
          /\ \E j, k \in 1 .. Len(aurora_history) :
                /\ j < k
                /\ {aurora_history[j], aurora_history[k]} =
                      {AppendedRow(evaluated, id), AppendedRow(other.evaluated, id)}

\* The cache key of the call of caller c in calls
KeyOf(calls, c) == cacheKey(calls[c].latitude, calls[c].longitude)

\* C33: getCachedCityName looks in the cache first.  With an entry for the key
\* younger than 24 hours the call returns the cached name, makes no lookup and
\* leaves the cache; otherwise it makes exactly one getCityName lookup, and when
\* that settles its result replaces the entry, stamped with the time of the store.
C33_CacheBeforeNetwork ==
    [][\A c \in Callers :
          /\ (geoCalls[c].state # "pending" /\ geoCalls'[c] # geoCalls[c]) =>
                LET key == KeyOf(geoCalls', c)
                    entry == cityCache[key]
                IN  /\ cityCache' = cityCache
                    /\ IF entry # NoEntry /\ now - entry.timestamp < TwentyFourHours
                       THEN /\ geoCalls'[c].state = "returned"
                            /\ geoCalls'[c].result = entry.cityName
                            /\ lookups' = lookups
                       ELSE /\ geoCalls'[c].state = "pending"
                            /\ lookups' = [lookups EXCEPT ![key] = Append(@, now)]
          /\ (geoCalls[c].state = "pending" /\ geoCalls'[c].state # "pending") =>
                /\ geoCalls'[c].state = "returned"
                /\ lookups' = lookups
                /\ cityCache' = [cityCache EXCEPT ![KeyOf(geoCalls, c)] =
                                    [cityName |-> geoCalls'[c].result, timestamp |-> now]]
      ]_vars

\* A key was looked up at hour 0 and, its entry being exactly 24 hours old, again
\* at hour 24; a later call for the key returned the stored name without a lookup.
C33_Witness ==
    \E k \in CacheKeys, c \in Callers :
        /\ lookups[k] = << 0, TwentyFourHours >>
        /\ cityCache[k].timestamp = TwentyFourHours
        /\ geoCalls[c].state = "returned" /\ ~geoCalls[c].lookedUp
        /\ KeyOf(geoCalls, c) = k
        /\ geoCalls[c].result = cityCache[k].cityName

\* C36: a failed place-name lookup does not fail the caller: no call of
\* getCachedCityName is rejected, every call that returned gave a label, the label
\* is 'Unknown Location' when the lookup failed, and a call awaiting its lookup
\* returns whatever the geocoding service answers.
C36_LookupFailureGivesLabel ==
    \A c \in Callers :
        /\ geoCalls[c].state # "rejected"
        /\ geoCalls[c].state = "returned" => geoCalls[c].result \notin {NoName, Thrown}
        /\ (geoCalls[c].state = "returned" /\ ~geoCalls[c].lookupOk)
              => geoCalls[c].result = "Unknown Location"
        /\ geoCalls[c].state = "pending" => ENABLED LookupSettles

\* A call whose lookup failed has returned 'Unknown Location', and the label is in
\* the cache.
C36_Witness ==
    \E c \in Callers :
        /\ geoCalls[c].state = "returned"
        /\ geoCalls[c].lookedUp /\ ~geoCalls[c].lookupOk
        /\ geoCalls[c].result = "Unknown Location"
        /\ cityCache[KeyOf(geoCalls, c)].cityName = "Unknown Location"

\* C37: for each cache key, any two getCityName lookups are at least 24 hours
\* apart, whatever calls of getCachedCityName are made and however they overlap.
C37_OneLookupPerKeyPerDay ==
    \A k \in CacheKeys :
        \A i, j \in 1 .. Len(lookups[k]) :
            i < j => lookups[k][j] - lookups[k][i] >= TwentyFourHours

\* Row b of the migrated table is row a of the old one: same id, owner,
\* coordinates and threshold, and the old increment threshold, or 10 where the old
\* row had none
Migrated(a, b) ==
    /\ b.id = a.id /\ b.user_id = a.user_id
    /\ b.latitude = a.latitude /\ b.longitude = a.longitude
    /\ b.threshold = a.threshold
    /\ b.increment_threshold =
          IF a.increment_threshold = NULL THEN 10 ELSE a.increment_threshold

\* C38: when the migration has run to its end, the alerts table has the new schema
\* and holds exactly the old rows, each with its id, owner, coordinates and
\* threshold and with its increment threshold or 10, and the notification state
\* and history tables are as they were.
C38_MigrationPreservesData ==
    (lastInit.ran /\ lastInit.failedAt = "none") =>
        /\ hasIncrementColumn /\ thresholdMax = 100
        /\ \A a \in lastInit.before : \E b \in alerts : Migrated(a, b)
        /\ \A b \in alerts : \E a \in lastInit.before : Migrated(a, b)
        /\ alert_notification_state = lastInit.stateBefore
        /\ aurora_history = lastInit.historyBefore
        /\ lastInit.foreign_keys

\* A table with the old CHECK and two alerts, one with increment threshold 15 and
\* one with none, both with a state row and a history row, has been migrated.
C38_Witness ==
    /\ lastInit.ran /\ lastInit.failedAt = "none"
    /\ Cardinality(lastInit.before) = 2
    /\ \E a, b \in lastInit.before :
          a.increment_threshold = NULL /\ b.increment_threshold = 15
    /\ \E a, b \in alerts : a.increment_threshold = 10 /\ b.increment_threshold = 15
    /\ Cardinality(alert_notification_state) = 2
    /\ Len(aurora_history) = 2

\* Row b is row a with its id, owner, coordinates and threshold
SameAlert(a, b) ==
    /\ b.id = a.id /\ b.user_id = a.user_id
    /\ b.latitude = a.latitude /\ b.longitude = a.longitude
    /\ b.threshold = a.threshold

\* C39: when a statement of the migration has thrown, the initialisation ends with
\* an alerts table that holds every row it held before, with foreign keys on, and
\* a later start on that database migrates it completely, keeping those rows.
C39_FailedMigrationRecoverable ==
    (lastInit.ran /\ lastInit.failedAt # "none") =>
        /\ \A a \in lastInit.before : \E b \in alerts : SameAlert(a, b)
        /\ lastInit.foreign_keys
        /\ LET again == initDatabase(TheDatabase, "none", TRUE, TRUE)
           IN  /\ again.hasIncrementColumn /\ again.thresholdMax = 100
               /\ \A a \in lastInit.before : \E b \in again.alerts : SameAlert(a, b)

\* C34: after any sequence of create and update requests, accepted or rejected,
\* every stored alert has a latitude in [-90, 90], a longitude in [-180, 180], a
\* whole threshold in 1..100 and a whole increment threshold in 1..50.
C34_StoredAlertsWithinBounds ==
    \A a \in alerts :
        /\ a.latitude \in (0 - 90) .. 90
        /\ a.longitude \in (0 - 180) .. 180
        /\ a.threshold \in 1 .. 100
        /\ a.increment_threshold \in 1 .. 50

\* An update with an out-of-range value was refused after a create and an update
\* were accepted
C34_Witness ==
    /\ call.fn = "PUT" /\ call.result = << 400 >>
    /\ \E a \in alerts : a.id = call.args[1] /\ a.user_id = call.args[2] /\ a.threshold = 30
    /\ \E a \in alerts : a.id = 2

\* The rows of the two tables that reference alert id
RowsOf(id, state, history) ==
    << { r \in state : r.alert_id = id }, SelectSeq(history, LAMBDA r : r.alert_id = id) >>

\* C40: an update or delete request changes nothing but the alert it names, and
\* that only when the requesting user owns it: for an alert of another user or no
\* alert the answer is 404 and no alert, notification state or history row
\* changes, and an update answered 400 leaves every field of the alert as it was.
C40_OnlyOwnAlertChanges ==
    [][ call'.fn \in {"PUT", "DELETE"} =>
          /\ \A a \in alerts :
                (a.id # call'.args[1] \/ a.user_id # call'.args[2]) =>
                    /\ a \in alerts'
                    /\ RowsOf(a.id, alert_notification_state', aurora_history')
                          = RowsOf(a.id, alert_notification_state, aurora_history)
          /\ \A a \in alerts' : a.id # call'.args[1] => a \in alerts
          /\ (~\E a \in alerts : a.id = call'.args[1] /\ a.user_id = call'.args[2]) =>
                /\ call'.result = << 404 >>
                /\ UNCHANGED << alerts, alert_notification_state, aurora_history >>
          /\ call'.result = << 400 >> =>
                UNCHANGED << alerts, alert_notification_state, aurora_history >>
      ]_vars

\* User 2 asked to update or delete the alert of user 1, which has its rows
C40_Witness ==
    /\ call.fn \in {"PUT", "DELETE"} /\ call.result = << 404 >> /\ call.args[2] = 2
    /\ \E a \in alerts : a.id = call.args[1] /\ a.user_id = 1
    /\ \E r \in alert_notification_state : r.alert_id = call.args[1]
    /\ \E a \in alerts : a.user_id = 2

====
